---------------------------- MODULE Spec2Model ----------------------------
(***************************************************************************)
(* A model of one orc node: the shard server (lib/server.js) with its      *)
(* token table, and the protocol handlers (lib/rules.js) that mint the     *)
(* tokens.  Every action is one callback of the event loop: a handler runs *)
(* from one I/O boundary to the next, and other callbacks interleave only  *)
(* at those boundaries.                                                    *)
(***************************************************************************)
EXTENDS Integers, Sequences, FiniteSets, TLC

(***************************************************************************)
(* Bounds of the model.                                                    *)
(***************************************************************************)
\* The clock (Date.now()) runs from 0 to MaxTime.
MaxTime == 2
\* How many tokens randomBytes(32) is asked for in one behaviour.
MaxTokens == 1
\* The longest request body a client sends, in bytes.
MaxBody == 2

\* options.tokenTtl, in clock ticks.
Ttl == 1

(***************************************************************************)
(* Values.                                                                 *)
(***************************************************************************)
Hashes == {"h1", "h2"}
\* req.params.hash of a request to /shards/ (no hash after the prefix).
NoHash == ""
\* req.query.token of a request without one.
NoToken == 0
Tokens == 1..MaxTokens
\* Bodies are told apart by their length: one byte value.
Byte == {1}
HttpIds == {1, 2}
Contacts == {[identity |-> "idA", xpub |-> "xA"], [identity |-> "idB", xpub |-> "xB"]}
Renter == [identity |-> "idA", xpub |-> "xA"]

\* The bytes whose RIPEMD160(SHA256(.)) is each hash of the model.
ShardBytes == [h \in Hashes |-> IF h = "h1" THEN <<1, 1>> ELSE <<1>>]

\* utils.rmd160(sha256 digest).toString('hex'): collision free; every byte
\* string that is not the preimage of a hash of the model digests to "h?".
Rmd160Sha256(bytes) ==
  IF \E h \in Hashes : ShardBytes[h] = bytes
  THEN CHOOSE h \in Hashes : ShardBytes[h] = bytes
  ELSE "h?"

\* What ShardContract.findOne may call back with: no contract, or one.
ContractRows == {[found |-> FALSE, shardSize |-> 0]}
                  \cup {[found |-> TRUE, shardSize |-> n] : n \in 1..MaxBody}

\* The request bodies a client may send.
Bodies == UNION {[1..n -> Byte] : n \in 0..MaxBody}

VARIABLES
  now,             \* Date.now()
  allowed,         \* Server._allowed: token -> {hash, contact, expires}
  draws,           \* how many values randomBytes(32) has returned
  shards,          \* the shard store
  http,            \* the upload and download requests in flight
  completed,       \* history: tokens whose transfer completed
  contracts,       \* node.contracts: '{hash}:{xpub}' -> descriptor
  claims,          \* node.claims: the allow-list of CLAIM
  rpc,             \* the CONSIGN, RETRIEVE, CLAIM and RENEW requests in flight
  offers,          \* node.offers: data_hash -> OfferStream
  offerRpc,        \* the OFFER requests in flight
  auditRpc,        \* the AUDIT requests in flight
  reaper,          \* FarmerProfile.reapExpiredShards: the scan under way
  announcement     \* FarmerProfile.announceCapacity: the announcement under way

vars == <<now, allowed, draws, shards, http, completed, contracts, claims, rpc,
          offers, offerRpc, auditRpc, reaper, announcement>>
\* What the shard server never touches, and what the handlers never touch;
\* neither touches the farmer profile's scan and announcement.
nodeVars == <<contracts, claims, rpc, offers, offerRpc, auditRpc, reaper, announcement>>
httpVars == <<http, completed, reaper, announcement>>
\* The renter side of the node, and the AUDIT handler's requests: what
\* CONSIGN, RETRIEVE, CLAIM and RENEW never touch.
offerVars == <<offers, offerRpc>>

(***************************************************************************)
(* The shard store (options.shards): an external store, by its interface.  *)
(***************************************************************************)
NoShard == [present |-> FALSE, data |-> <<>>]

\* shards.exists(hash)
ShardExists(s, hash) == hash \in Hashes /\ s[hash].present

\* shards.createWriteStream(hash): a new, empty entry under hash.
ShardCreate(s, hash) == [s EXCEPT ![hash] = [present |-> TRUE, data |-> <<>>]]

\* writeStream.write(chunk): appended to the entry; lost once it is unlinked.
ShardWrite(s, hash, chunk) ==
  IF s[hash].present
  THEN [s EXCEPT ![hash].data = s[hash].data \o chunk]
  ELSE s

\* shards.unlink(hash)
ShardUnlink(s, hash) == [s EXCEPT ![hash] = NoShard]

(***************************************************************************)
(* The token table.                                                        *)
(***************************************************************************)
\* Map.set
MapSet(m, k, v) == [x \in DOMAIN m \cup {k} |-> IF x = k THEN v ELSE m[x]]
\* Map.delete
MapDelete(m, k) == [x \in DOMAIN m \ {k} |-> m[x]]

\* Server.accept forgetting the time to live.
ServerAcceptNoTtl(tbl, token, filehash, contact) ==
  MapSet(tbl, token, [hash |-> filehash, contact |-> contact, expires |-> now])

\* Server.accept(token, filehash, contact)
ServerAccept(tbl, token, filehash, contact) ==
  MapSet(tbl, token, [hash |-> filehash, contact |-> contact, expires |-> now + Ttl])

\* Server.reject(token)
ServerReject(tbl, token) == MapDelete(tbl, token)

\* Server.authorize with the expiry test off by one (expires >= now).
AuthorizeErrorLate(token, hash) ==
  IF token = NoToken THEN "You did not supply a token"
  ELSE IF token \notin DOMAIN allowed THEN "The token is not accepted"
  ELSE IF hash = NoHash THEN "You did not supply the data hash"
  ELSE IF ~(allowed[token].expires >= now) THEN "Token expired"
  ELSE IF allowed[token].hash # hash THEN "Token not valid"
  ELSE ""

\* Server.authorize(token, hash): the message of the first assertion that
\* fails, "" when none does (the record is returned).
AuthorizeError(token, hash) ==
  IF token = NoToken THEN "You did not supply a token"
  ELSE IF token \notin DOMAIN allowed THEN "The token is not accepted"
  ELSE IF hash = NoHash THEN "You did not supply the data hash"
  ELSE IF ~(allowed[token].expires > now) THEN "Token expired"
  ELSE IF allowed[token].hash # hash THEN "Token not valid"
  ELSE ""

(***************************************************************************)
(* Upload and download requests.  A request record holds the request, the  *)
(* handler's locals while the handler runs, and the response.              *)
(***************************************************************************)
IdleHttp ==
  [kind |-> "idle", pc |-> "idle", token |-> NoToken, hash |-> NoHash,
   rest |-> <<>>, shardSize |-> 0, hasher |-> <<>>, live |-> FALSE,
   statusCode |-> 0, message |-> "", event |-> ""]

\* respond(err, statusCode): the first call ends the response; the callback
\* of async.waterfall is not run twice.
Respond(r, statusCode, message) ==
  IF r.statusCode = 0
  THEN [r EXCEPT !.statusCode = statusCode, !.message = message]
  ELSE r

\* The handler has returned: its locals and the unread body are gone, the
\* request and its response stay until the connection closes.
Finished(r) ==
  [r EXCEPT !.pc = "done", !.rest = <<>>, !.shardSize = 0, !.hasher = <<>>]

\* let receivedBytes
ReceivedBytes(r) == Len(r.hasher)

\* A token is live for a hash: in the table for that hash and not expired.
LiveFor(token, hash) ==
  /\ token \in DOMAIN allowed
  /\ allowed[token].hash = hash
  /\ allowed[token].expires > now

\* The transport hands a new request to the first free connection.
FirstFree(q) ==
  /\ http[q].kind = "idle"
  /\ \A p \in HttpIds : p < q => http[p].kind # "idle"

\* Server.upload looking the contract up whatever authorize says.
UploadStartUnauthorized(q, token, hash, body) ==
  /\ FirstFree(q)
  /\ http' = [http EXCEPT ![q] =
                [IdleHttp EXCEPT !.kind = "upload", !.token = token, !.hash = hash,
                                 !.rest = body, !.live = LiveFor(token, hash),
                                 !.pc = "findOne"]]
  /\ UNCHANGED <<now, allowed, draws, shards, completed, nodeVars>>

\* Server.upload, first task: authorize, 401 or on to the contract lookup.
\* `body` is what the client is about to send.
UploadStart(q, token, hash, body) ==
  /\ FirstFree(q)
  /\ LET err == AuthorizeError(token, hash)
         r == [IdleHttp EXCEPT !.kind = "upload", !.token = token, !.hash = hash,
                               !.rest = body, !.live = LiveFor(token, hash)]
     IN http' = [http EXCEPT ![q] =
                   IF err # ""
                   THEN Finished(Respond(r, 401, err))
                   ELSE [r EXCEPT !.pc = "findOne"]]
  /\ UNCHANGED <<now, allowed, draws, shards, completed, nodeVars>>

\* Server.upload: the callback of ShardContract.findOne({shardHash: hash}),
\* called with an error, with no contract, or with the contract the external
\* database holds for the hash.
UploadFindOne(q, dbError, contract) ==
  /\ http[q].kind = "upload" /\ http[q].pc = "findOne"
  /\ LET r == http[q]
     IN http' = [http EXCEPT ![q] =
                   IF dbError
                   THEN Finished(Respond(r, 404, "Database error"))
                   ELSE IF ~contract.found
                   THEN Finished(Respond(r, 404, "Not found"))
                   ELSE [r EXCEPT !.shardSize = contract.shardSize,
                                  !.pc = "createWriteStream"]]
  /\ UNCHANGED <<now, allowed, draws, shards, completed, nodeVars>>

\* Server.upload: the callback of shards.createWriteStream.
UploadCreateWriteStream(q, ioError) ==
  /\ http[q].kind = "upload" /\ http[q].pc = "createWriteStream"
  /\ LET r == http[q]
     IN IF ioError
        THEN /\ http' = [http EXCEPT ![q] =
                           Finished(Respond(r, 500, "Write stream error"))]
             /\ UNCHANGED shards
        ELSE /\ http' = [http EXCEPT ![q].pc = "receiving"]
             /\ shards' = ShardCreate(shards, r.hash)
  /\ UNCHANGED <<now, allowed, draws, completed, nodeVars>>

\* Server.upload: req.on('data') with the next n bytes of the body.
UploadData(q, n) ==
  /\ http[q].kind = "upload" /\ http[q].pc = "receiving"
  /\ n \in 1..Len(http[q].rest)
  /\ LET chunk == SubSeq(http[q].rest, 1, n)
         r == [http[q] EXCEPT !.hasher = http[q].hasher \o chunk,
                              !.rest = SubSeq(http[q].rest, n + 1, Len(http[q].rest))]
         written == ShardWrite(shards, r.hash, chunk)
     IN IF ReceivedBytes(r) > r.shardSize
        THEN /\ shards' = ShardUnlink(written, r.hash)
             /\ http' = [http EXCEPT ![q] =
                           Respond(r, 400, "Shard exceeds size defined in contract")]
        ELSE /\ shards' = written
             /\ http' = [http EXCEPT ![q] = r]
  /\ UNCHANGED <<now, allowed, draws, completed, nodeVars>>

\* req.on('end') that forgets to unlink the shard on a hash mismatch.
UploadEndNoUnlink(q) ==
  /\ http[q].kind = "upload" /\ http[q].pc = "receiving"
  /\ http[q].rest = <<>>
  /\ LET r == http[q]
     IN IF Rmd160Sha256(r.hasher) # r.hash
        THEN /\ http' = [http EXCEPT ![q] =
                           Finished(Respond(r, 400, "Hash does not match contract"))]
             /\ UNCHANGED <<shards, allowed, completed>>
        ELSE /\ allowed' = ServerReject(allowed, r.token)
             /\ http' = [http EXCEPT ![q] =
                           Finished([Respond(r, 200, "")
                                       EXCEPT !.event = "shardUploaded"])]
             /\ completed' = IF r.statusCode = 0 THEN completed \cup {r.token}
                             ELSE completed
             /\ UNCHANGED shards
  /\ UNCHANGED <<now, draws, nodeVars>>

\* Server.upload: req.on('end'), once the whole body has been delivered.
UploadEnd(q) ==
  /\ http[q].kind = "upload" /\ http[q].pc = "receiving"
  /\ http[q].rest = <<>>
  /\ LET r == http[q]
     IN IF Rmd160Sha256(r.hasher) # r.hash
        THEN /\ shards' = ShardUnlink(shards, r.hash)
             /\ http' = [http EXCEPT ![q] =
                           Finished(Respond(r, 400, "Hash does not match contract"))]
             /\ UNCHANGED <<allowed, completed>>
        ELSE /\ allowed' = ServerReject(allowed, r.token)
             /\ http' = [http EXCEPT ![q] =
                           Finished([Respond(r, 200, "")
                                       EXCEPT !.event = "shardUploaded"])]
             /\ completed' = IF r.statusCode = 0 THEN completed \cup {r.token}
                             ELSE completed
             /\ UNCHANGED shards
  /\ UNCHANGED <<now, draws, nodeVars>>

\* Server.download, first and second task: authorize, 401 or open the shard.
DownloadStart(q, token, hash) ==
  /\ FirstFree(q)
  /\ LET err == AuthorizeError(token, hash)
         r == [IdleHttp EXCEPT !.kind = "download", !.token = token, !.hash = hash,
                               !.live = LiveFor(token, hash)]
     IN http' = [http EXCEPT ![q] =
                   IF err # ""
                   THEN Finished(Respond(r, 401, err))
                   ELSE [r EXCEPT !.hash = allowed[token].hash,
                                  !.pc = "createReadStream"]]
  /\ UNCHANGED <<now, allowed, draws, shards, completed, nodeVars>>

\* Server.download: the callback of shards.createReadStream.
DownloadCreateReadStream(q, ioError) ==
  /\ http[q].kind = "download" /\ http[q].pc = "createReadStream"
  /\ LET r == http[q]
     IN http' = [http EXCEPT ![q] =
                   IF ioError \/ ~ShardExists(shards, r.hash)
                   THEN Finished(Respond(r, 404, "Read stream error"))
                   ELSE [r EXCEPT !.pc = "piping"]]
  /\ UNCHANGED <<now, allowed, draws, shards, completed, nodeVars>>

\* readStream.on('end') that forgets to revoke the token.
DownloadStreamEndKeepsToken(q) ==
  /\ http[q].kind = "download" /\ http[q].pc = "piping"
  /\ LET r == http[q]
     IN /\ http' = [http EXCEPT ![q] =
                      Finished([Respond(r, 200, "") EXCEPT !.event = "shardDownloaded"])]
        /\ completed' = completed \cup {r.token}
  /\ UNCHANGED <<now, allowed, draws, shards, nodeVars>>

\* Server.download: readStream.on('end').
DownloadStreamEnd(q) ==
  /\ http[q].kind = "download" /\ http[q].pc = "piping"
  /\ LET r == http[q]
     IN /\ allowed' = ServerReject(allowed, r.token)
        /\ http' = [http EXCEPT ![q] =
                      Finished([Respond(r, 200, "") EXCEPT !.event = "shardDownloaded"])]
        /\ completed' = completed \cup {r.token}
  /\ UNCHANGED <<now, draws, shards, nodeVars>>

\* readStream.on('error') that revokes the token as 'end' does.
DownloadStreamErrorRevokes(q) ==
  /\ http[q].kind = "download" /\ http[q].pc = "piping"
  /\ allowed' = ServerReject(allowed, http[q].token)
  /\ http' = [http EXCEPT ![q] = Finished(Respond(http[q], 200, ""))]
  /\ UNCHANGED <<now, draws, shards, completed, nodeVars>>

\* Server.download: readStream.on('error').
DownloadStreamError(q) ==
  /\ http[q].kind = "download" /\ http[q].pc = "piping"
  /\ http' = [http EXCEPT ![q] = Finished(Respond(http[q], 200, ""))]
  /\ UNCHANGED <<now, allowed, draws, shards, completed, nodeVars>>

\* The connection of a finished request is closed.
HttpClose(q) ==
  /\ http[q].pc = "done"
  /\ http' = [http EXCEPT ![q] = IdleHttp]
  /\ UNCHANGED <<now, allowed, draws, shards, completed, nodeVars>>

\* Server._reapExpiredTokens: the records its loop leaves in the table.
ReapedTokens(table, t) ==
  [x \in {y \in DOMAIN table : ~(table[y].expires < t)} |-> table[x]]

\* Server._reapExpiredTokens, run by the interval timer.
ReapExpiredTokens ==
  /\ allowed' = ReapedTokens(allowed, now)
  /\ UNCHANGED <<now, draws, shards, http, completed, nodeVars>>

\* randomBytes(32).toString('hex'): a token never produced before.
FreshToken == draws + 1

\* A handler's server.accept(token, hash, contact) with a fresh token.
AcceptToken(hash, contact) ==
  /\ draws < MaxTokens
  /\ draws' = draws + 1
  /\ allowed' = ServerAccept(allowed, FreshToken, hash, contact)
  /\ UNCHANGED <<now, shards, http, completed, nodeVars>>

\* The clock advances.
Tick ==
  /\ now < MaxTime
  /\ now' = now + 1
  /\ UNCHANGED <<allowed, draws, shards, http, completed, nodeVars>>

\* What a client may put in ?token=: nothing, a token some handler replied
\* with, or a string that is no token (yet).
Presentable == {NoToken} \cup (1..(draws + 1))

(***************************************************************************)
(* Contracts (lib/contract.js): the descriptor, by its interface.          *)
(***************************************************************************)
Xpubs == {"xA", "xB"}
\* The node's own identity, HD key and HD index (node.identity,
\* node.contact.xpub, node.contact.index); the key it signs with.
NodeIdentity == "idF"
NodeXpub == "xF"
NodeIndex == 1
\* A farmer identity and key that are not this node's.
OtherFarmerIdentity == "idG"
OtherFarmerXpub == "xG"
\* The descriptor's store_end takes these values.
StoreEnds == {0, 1}

\* No signature in a signature field.
NoSignature == <<>>

\* A descriptor with nothing filled in.
NoContract ==
  [data_hash |-> NoHash, renter_hd_key |-> "", renter_signature |-> NoSignature,
   store_end |-> 0, farmer_id |-> "", farmer_hd_key |-> "",
   farmer_hd_index |-> 0, payment_destination |-> "",
   farmer_signature |-> NoSignature]

\* What a signature covers: the descriptor with both signature fields
\* blanked.
Blanked(c) ==
  [c EXCEPT !.renter_signature = NoSignature, !.farmer_signature = NoSignature]

\* A signature: the key whose holder made it and what it was made over.
Signature(c, key) == <<key, Blanked(c)>>

\* contract.sign('renter', key)
SignRenter(c, key) == [c EXCEPT !.renter_signature = Signature(c, key)]

\* contract.sign('farmer', key)
SignFarmer(c, key) == [c EXCEPT !.farmer_signature = Signature(c, key)]

\* contract.isValid(): the fields are well typed and every signature that
\* is there is one of its key.  (A descriptor changed after it was signed
\* still counts as valid: test 'should sign and echo back the renewal'.)
IsValid(c) ==
  /\ c.data_hash \in Hashes
  /\ c.renter_signature # NoSignature => c.renter_signature[1] = c.renter_hd_key
  /\ c.farmer_signature # NoSignature => c.farmer_signature[1] = c.farmer_hd_key

\* contract.isComplete(): both signatures are there.
IsComplete(c) ==
  c.renter_signature # NoSignature /\ c.farmer_signature # NoSignature

\* The fields of a descriptor, in the order Contract.diff reports them.
FieldOrder ==
  <<"renter_hd_key", "renter_signature", "farmer_hd_key", "farmer_hd_index",
    "farmer_id", "farmer_signature", "data_hash", "store_end",
    "payment_destination">>

\* Contract.diff(a, b): the names of the fields in which a and b differ.
Diff(a, b) == SelectSeq(FieldOrder, LAMBDA f : a[f] # b[f])

\* The descriptors sent with CLAIM: the farmer's side empty, the renter's
\* key with a signature that is right, by another key or missing, the hash
\* possibly malformed.  The sender need not be the renter.
Offers ==
  {LET c == [NoContract EXCEPT !.data_hash = h, !.renter_hd_key = x,
                               !.store_end = e]
   IN IF signer = "" THEN c ELSE SignRenter(c, signer) :
     h \in Hashes \cup {NoHash}, x \in {Renter.xpub},
     signer \in Xpubs \cup {""}, e \in StoreEnds}

\* The farmer's side of a descriptor filled in for the farmer with key k.
FarmerSide(c, k) ==
  [c EXCEPT !.farmer_id = IF k = NodeXpub THEN NodeIdentity
                                          ELSE OtherFarmerIdentity,
            !.farmer_hd_key = k, !.farmer_hd_index = NodeIndex,
            !.payment_destination = "?"]

\* The descriptors a renter may send with RENEW: an offer with the farmer's
\* side filled in for this node or for another farmer, with no farmer
\* signature or with the one the farmer made when store_end was e.
Renewals ==
  {LET c == FarmerSide(o, k)
   IN IF ~signed THEN c
      ELSE [c EXCEPT !.farmer_signature =
                       Signature([c EXCEPT !.store_end = e], k)] :
     o \in {x \in Offers : x.data_hash \in Hashes},
     k \in {NodeXpub, OtherFarmerXpub}, signed \in BOOLEAN, e \in StoreEnds}

\* The key of node.contracts: `${hash}:${xpub}`.
ContractKey(hash, xpub) == <<hash, xpub>>

\* node.claims as the node may be configured.
ClaimLists == {<<>>, <<"xA">>, <<"xB">>, <<"*">>}

(***************************************************************************)
(* The handlers of lib/rules.js.                                           *)
(***************************************************************************)
RpcIds == {1}
\* The request slots of a node whose handlers overlap: a second request
\* arrives while the first is waiting for the contract store.
OverlapIds == {1, 2}

\* A request slot.  token, descriptor, statusCode (res.statusCode) and
\* result are the handler's locals; status and message are what
\* response.send or next(err) delivered.
IdleRpc ==
  [kind |-> "idle", pc |-> "idle", contact |-> Renter, hash |-> NoHash,
   descriptor |-> NoContract, token |-> NoToken, status |-> "",
   message |-> "", statusCode |-> 0, result |-> ""]

\* next(err)
Fail(r, message) ==
  [IdleRpc EXCEPT !.kind = r.kind, !.pc = "done", !.status = "error",
                  !.message = message]

\* next(err) of a handler that has not left its first callback: the
\* request's descriptor is still at hand.
Reject(r, message) ==
  [Fail(r, message) EXCEPT !.contact = r.contact, !.hash = r.hash,
                           !.descriptor = r.descriptor]

\* response.send(result)
Send(r) == [r EXCEPT !.pc = "done", !.status = "ok"]

\* The lowest slot that is free takes the next request.
FirstFreeRpc(r) ==
  /\ rpc[r].kind = "idle"
  /\ \A p \in RpcIds : p < r => rpc[p].kind # "idle"

\* contracts.get(key, callback): the callback's error, or "" and the value.
GetError(key, ioError) ==
  IF ioError THEN "Contract store error"
  ELSE IF key \notin DOMAIN contracts THEN "Not found"
  ELSE ""

\* Rules.consign up to contracts.get.
ConsignStart(r, contact, hash) ==
  /\ FirstFreeRpc(r)
  /\ rpc' = [rpc EXCEPT ![r] = [IdleRpc EXCEPT !.kind = "consign", !.pc = "get",
                                               !.contact = contact, !.hash = hash]]
  /\ UNCHANGED <<now, allowed, draws, shards, contracts, claims, httpVars,
       offerVars, auditRpc>>

\* Rules.consign with the expiry test off by one (now >= store_end).
ConsignGotStrict(r, ioError) ==
  LET key == ContractKey(rpc[r].hash, rpc[r].contact.xpub)
      err == GetError(key, ioError)
  IN /\ rpc[r].kind = "consign" /\ rpc[r].pc = "get"
     /\ IF err # ""
        THEN /\ rpc' = [rpc EXCEPT ![r] = Fail(@, err)]
             /\ UNCHANGED <<allowed, draws>>
        ELSE /\ draws < MaxTokens
             /\ draws' = draws + 1
             /\ IF now >= contracts[key].store_end
                THEN /\ rpc' = [rpc EXCEPT ![r] = Fail(@, "Contract has expired")]
                     /\ UNCHANGED allowed
                ELSE /\ allowed' = ServerAccept(allowed, FreshToken, rpc[r].hash,
                                                rpc[r].contact)
                     /\ rpc' = [rpc EXCEPT ![r] = Send([@ EXCEPT !.token = FreshToken])]
     /\ UNCHANGED <<now, shards, contracts, claims, httpVars,
       offerVars, auditRpc>>

\* Rules.consign: the callback of contracts.get.
ConsignGot(r, ioError) ==
  LET key == ContractKey(rpc[r].hash, rpc[r].contact.xpub)
      err == GetError(key, ioError)
  IN /\ rpc[r].kind = "consign" /\ rpc[r].pc = "get"
     /\ IF err # ""
        THEN /\ rpc' = [rpc EXCEPT ![r] = Fail(@, err)]
             /\ UNCHANGED <<allowed, draws>>
        ELSE /\ draws < MaxTokens
             /\ draws' = draws + 1
             /\ IF now > contracts[key].store_end
                THEN /\ rpc' = [rpc EXCEPT ![r] = Fail(@, "Contract has expired")]
                     /\ UNCHANGED allowed
                ELSE /\ allowed' = ServerAccept(allowed, FreshToken, rpc[r].hash,
                                                rpc[r].contact)
                     /\ rpc' = [rpc EXCEPT ![r] = Send([@ EXCEPT !.token = FreshToken])]
     /\ UNCHANGED <<now, shards, contracts, claims, httpVars,
       offerVars, auditRpc>>

\* Rules.retrieve up to contracts.get.
RetrieveStart(r, contact, hash) ==
  /\ FirstFreeRpc(r)
  /\ rpc' = [rpc EXCEPT ![r] = [IdleRpc EXCEPT !.kind = "retrieve", !.pc = "get",
                                               !.contact = contact, !.hash = hash]]
  /\ UNCHANGED <<now, allowed, draws, shards, contracts, claims, httpVars,
       offerVars, auditRpc>>

\* Rules.retrieve accepting the token where it is drawn, before shards.exists.
RetrieveGotEagerAccept(r, ioError) ==
  LET key == ContractKey(rpc[r].hash, rpc[r].contact.xpub)
      err == GetError(key, ioError)
  IN /\ rpc[r].kind = "retrieve" /\ rpc[r].pc = "get"
     /\ IF err # ""
        THEN /\ rpc' = [rpc EXCEPT ![r] = Fail(@, err)]
             /\ UNCHANGED <<draws, allowed>>
        ELSE /\ draws < MaxTokens
             /\ draws' = draws + 1
             /\ allowed' = ServerAccept(allowed, FreshToken, rpc[r].hash, rpc[r].contact)
             /\ rpc' = [rpc EXCEPT ![r].pc = "exists", ![r].token = FreshToken]
     /\ UNCHANGED <<now, shards, contracts, claims, httpVars,
       offerVars, auditRpc>>

\* Rules.retrieve: the callback of contracts.get, up to shards.exists.
RetrieveGot(r, ioError) ==
  LET key == ContractKey(rpc[r].hash, rpc[r].contact.xpub)
      err == GetError(key, ioError)
  IN /\ rpc[r].kind = "retrieve" /\ rpc[r].pc = "get"
     /\ IF err # ""
        THEN /\ rpc' = [rpc EXCEPT ![r] = Fail(@, err)]
             /\ UNCHANGED draws
        ELSE /\ draws < MaxTokens
             /\ draws' = draws + 1
             /\ rpc' = [rpc EXCEPT ![r].pc = "exists", ![r].token = FreshToken]
     /\ UNCHANGED <<now, allowed, shards, contracts, claims, httpVars,
       offerVars, auditRpc>>

\* Rules.retrieve not looking at what shards.exists answered.
RetrieveExistsSkipsCheck(r, ioError) ==
  /\ rpc[r].kind = "retrieve" /\ rpc[r].pc = "exists"
  /\ IF ioError
     THEN /\ rpc' = [rpc EXCEPT ![r] = Fail(@, "Shard store error")]
          /\ UNCHANGED allowed
     ELSE /\ allowed' = ServerAccept(allowed, rpc[r].token, rpc[r].hash, rpc[r].contact)
          /\ rpc' = [rpc EXCEPT ![r] = Send(@)]
  /\ UNCHANGED <<now, draws, shards, contracts, claims, httpVars,
       offerVars, auditRpc>>

\* Rules.retrieve: the callback of shards.exists.
RetrieveExists(r, ioError) ==
  /\ rpc[r].kind = "retrieve" /\ rpc[r].pc = "exists"
  /\ IF ioError
     THEN /\ rpc' = [rpc EXCEPT ![r] = Fail(@, "Shard store error")]
          /\ UNCHANGED allowed
     ELSE IF ~ShardExists(shards, rpc[r].hash)
     THEN /\ rpc' = [rpc EXCEPT ![r] = Fail(@, "Shard not found")]
          /\ UNCHANGED allowed
     ELSE /\ allowed' = ServerAccept(allowed, rpc[r].token, rpc[r].hash, rpc[r].contact)
          /\ rpc' = [rpc EXCEPT ![r] = Send(@)]
  /\ UNCHANGED <<now, draws, shards, contracts, claims, httpVars,
       offerVars, auditRpc>>

\* Array.includes over node.claims
Includes(list, x) == \E i \in 1..Len(list) : list[i] = x

\* Rules.claim: the descriptor with the farmer's side filled in and signed.
Finalized(descriptor) ==
  SignFarmer([descriptor EXCEPT !.payment_destination = "?",
                                !.farmer_id = NodeIdentity,
                                !.farmer_hd_key = NodeXpub,
                                !.farmer_hd_index = NodeIndex],
             NodeXpub)

\* Rules.claim testing the allow-list against the requesting contact.
ClaimStartByContact(r, contact, descriptor) ==
  LET contract == Finalized(descriptor)
  IN /\ FirstFreeRpc(r)
     /\ rpc' = [rpc EXCEPT ![r] =
          LET q == [IdleRpc EXCEPT !.kind = "claim", !.pc = "put",
                                   !.contact = contact,
                                   !.hash = descriptor.data_hash,
                                   !.descriptor = descriptor]
          IN IF ~Includes(claims, contact.xpub) /\ ~Includes(claims, "*")
             THEN Reject(q, "Currently rejecting claims")
             ELSE IF ~(IsValid(contract) /\ IsComplete(contract))
             THEN Reject(q, "Invalid shard descriptor")
             ELSE [q EXCEPT !.descriptor = contract]]
     /\ UNCHANGED <<now, allowed, draws, shards, contracts, claims, httpVars,
       offerVars, auditRpc>>

\* Rules.claim up to contracts.put.
ClaimStart(r, contact, descriptor) ==
  LET contract == Finalized(descriptor)
  IN /\ FirstFreeRpc(r)
     /\ rpc' = [rpc EXCEPT ![r] =
          LET q == [IdleRpc EXCEPT !.kind = "claim", !.pc = "put",
                                   !.contact = contact,
                                   !.hash = descriptor.data_hash,
                                   !.descriptor = descriptor]
          IN IF ~Includes(claims, descriptor.renter_hd_key) /\ ~Includes(claims, "*")
             THEN Reject(q, "Currently rejecting claims")
             ELSE IF ~(IsValid(contract) /\ IsComplete(contract))
             THEN Reject(q, "Invalid shard descriptor")
             ELSE [q EXCEPT !.descriptor = contract]]
     /\ UNCHANGED <<now, allowed, draws, shards, contracts, claims, httpVars,
       offerVars, auditRpc>>

\* Rules.claim persisting under the requesting contact's key.
ClaimPutByContact(r, ioError) ==
  LET key == ContractKey(rpc[r].hash, rpc[r].contact.xpub)
  IN /\ rpc[r].kind = "claim" /\ rpc[r].pc = "put"
     /\ IF ioError
        THEN /\ rpc' = [rpc EXCEPT ![r] = Fail(@, "Contract store error")]
             /\ UNCHANGED <<allowed, draws, contracts>>
        ELSE /\ draws < MaxTokens
             /\ draws' = draws + 1
             /\ contracts' = MapSet(contracts, key, rpc[r].descriptor)
             /\ allowed' = ServerAccept(allowed, FreshToken, rpc[r].hash, rpc[r].contact)
             /\ rpc' = [rpc EXCEPT ![r] = Send([@ EXCEPT !.token = FreshToken])]
     /\ UNCHANGED <<now, shards, claims, httpVars,
       offerVars, auditRpc>>

\* Rules.claim: the callback of contracts.put.
ClaimPut(r, ioError) ==
  LET key == ContractKey(rpc[r].hash, rpc[r].descriptor.renter_hd_key)
  IN /\ rpc[r].kind = "claim" /\ rpc[r].pc = "put"
     /\ IF ioError
        THEN /\ rpc' = [rpc EXCEPT ![r] = Fail(@, "Contract store error")]
             /\ UNCHANGED <<allowed, draws, contracts>>
        ELSE /\ draws < MaxTokens
             /\ draws' = draws + 1
             /\ contracts' = MapSet(contracts, key, rpc[r].descriptor)
             /\ allowed' = ServerAccept(allowed, FreshToken, rpc[r].hash, rpc[r].contact)
             /\ rpc' = [rpc EXCEPT ![r] = Send([@ EXCEPT !.token = FreshToken])]
     /\ UNCHANGED <<now, shards, claims, httpVars,
       offerVars, auditRpc>>

\* Rules.renew up to contracts.get.
RenewStart(r, contact, renewal) ==
  /\ FirstFreeRpc(r)
  /\ rpc' = [rpc EXCEPT ![r] =
       LET q == [IdleRpc EXCEPT !.kind = "renew", !.pc = "get",
                                !.contact = contact,
                                !.hash = renewal.data_hash,
                                !.descriptor = renewal]
       IN IF ~(IsValid(renewal) /\ IsComplete(renewal))
          THEN Reject(q, "Descriptor is invalid or incomplete")
          ELSE q]
  /\ UNCHANGED <<now, allowed, draws, shards, contracts, claims, httpVars,
       offerVars, auditRpc>>

\* The fields a renewal may change.
RenewAllowed == {"renter_id", "renter_hd_key", "renter_signature", "store_begin",
                 "store_end", "audit_leaves"}

\* Rules.renew with farmer_hd_key among the fields a renewal may change.
RenewGotAllowsFarmerKey(r, ioError) ==
  LET key == ContractKey(rpc[r].hash, rpc[r].contact.xpub)
      err == GetError(key, ioError)
      difference == Diff(contracts[key], rpc[r].descriptor)
      offending == SelectSeq(difference,
                     LAMBDA f : f \notin RenewAllowed \cup {"farmer_hd_key"})
  IN /\ rpc[r].kind = "renew" /\ rpc[r].pc = "get"
     /\ rpc' = [rpc EXCEPT ![r] =
          IF err # "" THEN Fail(@, err)
          ELSE IF offending # <<>>
          THEN Fail(@, "Rejecting renewal of " \o Head(offending))
          ELSE [@ EXCEPT !.pc = "put",
                         !.descriptor = SignFarmer(@, NodeXpub)]]
     /\ UNCHANGED <<now, allowed, draws, shards, contracts, claims, httpVars,
       offerVars, auditRpc>>

\* Rules.renew persisting the renewal as it came, without signing it.
RenewGotUnsigned(r, ioError) ==
  LET key == ContractKey(rpc[r].hash, rpc[r].contact.xpub)
      err == GetError(key, ioError)
      difference == Diff(contracts[key], rpc[r].descriptor)
      offending == SelectSeq(difference, LAMBDA f : f \notin RenewAllowed)
  IN /\ rpc[r].kind = "renew" /\ rpc[r].pc = "get"
     /\ rpc' = [rpc EXCEPT ![r] =
          IF err # "" THEN Fail(@, err)
          ELSE IF offending # <<>>
          THEN Fail(@, "Rejecting renewal of " \o Head(offending))
          ELSE [@ EXCEPT !.pc = "put"]]
     /\ UNCHANGED <<now, allowed, draws, shards, contracts, claims, httpVars,
       offerVars, auditRpc>>

\* Rules.renew: the callback of contracts.get, up to contracts.put.
RenewGot(r, ioError) ==
  LET key == ContractKey(rpc[r].hash, rpc[r].contact.xpub)
      err == GetError(key, ioError)
      difference == Diff(contracts[key], rpc[r].descriptor)
      offending == SelectSeq(difference, LAMBDA f : f \notin RenewAllowed)
  IN /\ rpc[r].kind = "renew" /\ rpc[r].pc = "get"
     /\ rpc' = [rpc EXCEPT ![r] =
          IF err # "" THEN Fail(@, err)
          ELSE IF offending # <<>>
          THEN Fail(@, "Rejecting renewal of " \o Head(offending))
          ELSE [@ EXCEPT !.pc = "put",
                         !.descriptor = SignFarmer(@, NodeXpub)]]
     /\ UNCHANGED <<now, allowed, draws, shards, contracts, claims, httpVars,
       offerVars, auditRpc>>

\* Rules.renew: the callback of contracts.put.
\* Rules.renew deleting the record when the renewed term has already run
\* out, in place of persisting it.
RenewPutTerminates(r, ioError) ==
  LET key == ContractKey(rpc[r].hash, rpc[r].contact.xpub)
  IN /\ rpc[r].kind = "renew" /\ rpc[r].pc = "put"
     /\ IF ioError
        THEN /\ rpc' = [rpc EXCEPT ![r] = Fail(@, "Contract store error")]
             /\ UNCHANGED contracts
        ELSE /\ contracts' = IF rpc[r].descriptor.store_end <= now
                             THEN [k \in DOMAIN contracts \ {key} |-> contracts[k]]
                             ELSE MapSet(contracts, key, rpc[r].descriptor)
             /\ rpc' = [rpc EXCEPT ![r] = Send(@)]
     /\ UNCHANGED <<now, allowed, draws, shards, claims, httpVars,
       offerVars, auditRpc>>

RenewPut(r, ioError) ==
  LET key == ContractKey(rpc[r].hash, rpc[r].contact.xpub)
  IN /\ rpc[r].kind = "renew" /\ rpc[r].pc = "put"
     /\ IF ioError
        THEN /\ rpc' = [rpc EXCEPT ![r] = Fail(@, "Contract store error")]
             /\ UNCHANGED contracts
        ELSE /\ contracts' = MapSet(contracts, key, rpc[r].descriptor)
             /\ rpc' = [rpc EXCEPT ![r] = Send(@)]
     /\ UNCHANGED <<now, allowed, draws, shards, claims, httpVars,
       offerVars, auditRpc>>

\* The reply or the error has been delivered; the slot is free again.
RpcClose(r) ==
  /\ rpc[r].pc = "done"
  /\ rpc' = [rpc EXCEPT ![r] = IdleRpc]
  /\ UNCHANGED <<now, allowed, draws, shards, contracts, claims, httpVars,
       offerVars, auditRpc>>

\* What the destination's shard server may answer an upload with, and the
\* bodies it sends.
UploadAnswers == {200, 400, 401}
AnswerBodies == {"", "Not authorized"}

\* Rules.mirror: contracts.get is issued for '{hash}:{originator xpub}'.
MirrorStart(r, contact, hash) ==
  /\ FirstFreeRpc(r)
  /\ rpc' = [rpc EXCEPT ![r] = [IdleRpc EXCEPT !.kind = "mirror", !.pc = "get",
                                                !.contact = contact, !.hash = hash]]
  /\ UNCHANGED <<now, allowed, draws, shards, contracts, claims, httpVars,
       offerVars, auditRpc>>

\* Rules.mirror: the callback of contracts.get; shards.createReadStream is
\* issued when there is no error.
MirrorGot(r, ioError) ==
  /\ rpc[r].kind = "mirror" /\ rpc[r].pc = "get"
  /\ LET err == GetError(ContractKey(rpc[r].hash, rpc[r].contact.xpub), ioError)
     IN rpc' = [rpc EXCEPT ![r] = IF err # "" THEN Fail(@, err)
                                  ELSE [@ EXCEPT !.pc = "open"]]
  /\ UNCHANGED <<now, allowed, draws, shards, contracts, claims, httpVars,
       offerVars, auditRpc>>

\* Rules.mirror: the callback of shards.createReadStream; the stream is
\* piped into the uploader when there is no error.
MirrorOpened(r, ioError) ==
  /\ rpc[r].kind = "mirror" /\ rpc[r].pc = "open"
  /\ rpc' = [rpc EXCEPT ![r] =
               IF ioError \/ ~ShardExists(shards, rpc[r].hash)
               THEN Fail(@, "Read stream error")
               ELSE [@ EXCEPT !.pc = "pipe"]]
  /\ UNCHANGED <<now, allowed, draws, shards, contracts, claims, httpVars,
       offerVars, auditRpc>>

\* The uploader emits 'error': once('error', next).
MirrorUploadError(r) ==
  /\ rpc[r].kind = "mirror" /\ rpc[r].pc = "pipe"
  /\ rpc' = [rpc EXCEPT ![r] = Fail(@, "Upload stream error")]
  /\ UNCHANGED <<now, allowed, draws, shards, contracts, claims, httpVars,
       offerVars, auditRpc>>

\* The shard stream emits 'error' while it is piped: pipe() does not pass
\* the error on to the uploader and shardStream has no 'error' listener, so
\* the upload is never ended and neither next nor response.send is called.
MirrorShardStreamError(r) ==
  /\ rpc[r].kind = "mirror" /\ rpc[r].pc = "pipe"
  /\ rpc' = [rpc EXCEPT ![r].pc = "lost"]
  /\ UNCHANGED <<now, allowed, draws, shards, contracts, claims, httpVars,
       offerVars, auditRpc>>

\* uploader.on('response'): let result = ''.
MirrorResponse(r, statusCode) ==
  /\ rpc[r].kind = "mirror" /\ rpc[r].pc = "pipe"
  /\ rpc' = [rpc EXCEPT ![r].pc = "response", ![r].statusCode = statusCode]
  /\ UNCHANGED <<now, allowed, draws, shards, contracts, claims, httpVars,
       offerVars, auditRpc>>

\* res.on('data'): result += data.toString(); the body comes in one chunk.
MirrorResponseData(r, data) ==
  /\ rpc[r].kind = "mirror" /\ rpc[r].pc = "response" /\ rpc[r].result = ""
  /\ data # ""
  /\ rpc' = [rpc EXCEPT ![r].result = data]
  /\ UNCHANGED <<now, allowed, draws, shards, contracts, claims, httpVars,
       offerVars, auditRpc>>

\* res.on('end'): next(new Error(result)) unless the status is 200, else
\* response.send([result]).
MirrorResponseEnd(r) ==
  /\ rpc[r].kind = "mirror" /\ rpc[r].pc = "response"
  /\ rpc' = [rpc EXCEPT ![r] =
               IF @.statusCode # 200
               THEN [Fail(@, @.result) EXCEPT !.statusCode = rpc[r].statusCode]
               ELSE Send(@)]
  /\ UNCHANGED <<now, allowed, draws, shards, contracts, claims, httpVars,
       offerVars, auditRpc>>

\* The transport gives up waiting for the answer of a request that will
\* get none.
MirrorTimeout(r) ==
  /\ rpc[r].kind = "mirror" /\ rpc[r].pc = "lost"
  /\ rpc' = [rpc EXCEPT ![r] = IdleRpc]
  /\ UNCHANGED <<now, allowed, draws, shards, contracts, claims, httpVars,
       offerVars, auditRpc>>

(***************************************************************************)
(* OFFER: the node as renter.  node.offers maps the data_hash of a         *)
(* published descriptor to its OfferStream.  The OfferStream class         *)
(* (lib/offers.js) is modelled from its specification: queue() applies the *)
(* admission policy, the consumer takes the admitted offers one by one in  *)
(* the order they were queued, and resolves the offer it holds before it   *)
(* takes the next one.                                                     *)
(***************************************************************************)
\* The farmers that send OFFER.
Farmers == {[identity |-> "idG", xpub |-> "xG"], [identity |-> "idH", xpub |-> "xH"]}
\* The shards this node publishes descriptors for.
Published == {"h1"}
\* options.maxOffers and options.farmerBlacklist of a published descriptor.
MaxOffersOptions == {1, 2}
Blacklists == {{}, {"idH"}}
\* The OFFER requests that can be in flight together.
OfferIds == {1, 2}
NoOffer == 0

\* The descriptor a farmer offers for a shard this node published: the
\* renter side is this node's, the farmer side is the farmer's own.  It
\* comes complete, without the farmer's signature, with a farmer signature
\* of another key, or without the farmer's identity.
OfferDescriptor(h, f, how) ==
  LET renter == SignRenter([NoContract EXCEPT !.data_hash = h, !.renter_hd_key = NodeXpub,
                                              !.store_end = 1], NodeXpub)
      filled == [renter EXCEPT !.farmer_id = IF how = "anonymous" THEN "" ELSE f.identity,
                               !.farmer_hd_key = f.xpub, !.farmer_hd_index = NodeIndex,
                               !.payment_destination = "?"]
  IN CASE how = "unsigned" -> filled
       [] how = "forged" -> SignFarmer(filled, NodeXpub)
       [] OTHER -> SignFarmer(filled, f.xpub)
OfferDescriptors ==
  {OfferDescriptor(h, f, how) :
     h \in Hashes, f \in Farmers, how \in {"complete", "unsigned", "forged", "anonymous"}}

\* An OfferStream: its options, the offers queued and not yet exposed, the
\* offer the consumer holds, the offers resolved and the offers accepted so
\* far, whether it has ended, and whether node.offers still maps its
\* data_hash to it.
NoStream ==
  [maxOffers |-> 0, farmerBlacklist |-> {}, queue |-> <<>>, held |-> NoOffer,
   resolved |-> 0, accepted |-> 0, ended |-> TRUE, registered |-> FALSE,
   earlier |-> 0, failed |-> FALSE]
\* new OfferStream(contract, options)
NewStream(maxOffers, farmerBlacklist) ==
  [NoStream EXCEPT !.maxOffers = maxOffers, !.farmerBlacklist = farmerBlacklist,
                   !.ended = FALSE]

\* this.node.offers.get(shardKey)
OffersGet(hash) ==
  IF hash \in Hashes /\ offers[hash].registered THEN offers[hash] ELSE NoStream
OffersHas(hash) == hash \in Hashes /\ offers[hash].registered

\* An OFFER request: where its handler stands, what it received, and what
\* it answered.
IdleOffer ==
  [pc |-> "idle", contact |-> [identity |-> "", xpub |-> ""], descriptor |-> NoContract,
   status |-> "", message |-> "", result |-> NoContract]
FirstFreeOffer(i) ==
  /\ offerRpc[i].pc = "idle"
  /\ \A j \in OfferIds : j < i => offerRpc[j].pc # "idle"

\* The farmer side of an offered contract: the farmer's signature verifies
\* and the fields the farmer fills are there.
FarmerSideComplete(c) ==
  /\ c.farmer_signature # NoSignature
  /\ c.farmer_signature[1] = c.farmer_hd_key
  /\ c.farmer_id # ""
  /\ c.farmer_hd_key # ""

\* The error OfferStream.queue hands to the resolver, "" when the offer is
\* admitted.  hash is the data_hash of the stream's owning contract.
QueueAnyFarmer(stream, hash, contact, contract) ==
  CASE stream.ended -> "Offer stream ended"
    [] contract.data_hash # hash -> "Offer rejected"
    [] ~FarmerSideComplete(contract) -> "Offer rejected"
    [] stream.resolved >= stream.maxOffers -> "Offer rejected"
    [] OTHER -> ""
QueueError(stream, hash, contact, contract) ==
  CASE stream.ended -> "Offer stream ended"
    [] contract.data_hash # hash -> "Offer rejected"
    [] ~FarmerSideComplete(contract) -> "Offer rejected"
    [] contact.identity \in stream.farmerBlacklist -> "Offer rejected"
    [] stream.resolved >= stream.maxOffers -> "Offer rejected"
    [] OTHER -> ""

\* The resolver rules.offer hands to queue(): next(err), or
\* response.send([result]).
Resolver(o, err, result) ==
  IF err # ""
  THEN [o EXCEPT !.pc = "done", !.status = "error", !.message = err]
  ELSE [o EXCEPT !.pc = "done", !.status = "ok", !.result = result]

\* The listener publishShardDescriptor puts on 'end', 'error' and
\* 'destroy': this.offers.delete(routingKey).
Unregister(stream) == [stream EXCEPT !.registered = FALSE]

\* Node.publishShardDescriptor: a new OfferStream is registered under the
\* contract's data_hash.  (Descriptors are published for shards that have no
\* stream registered.)
PublishShardDescriptor(h, maxOffers, farmerBlacklist) ==
  /\ ~OffersHas(h)
  /\ offers' = [offers EXCEPT ![h] = [NewStream(maxOffers, farmerBlacklist)
                                        EXCEPT !.registered = TRUE]]
  /\ UNCHANGED <<now, allowed, draws, shards, contracts, claims, rpc, httpVars,
                 offerRpc, auditRpc>>

\* Node.publishShardDescriptor for a hash whose stream is registered and
\* has nothing pending: offers.set replaces the entry; the earlier stream
\* stays open with its listeners ('earlier' counts such streams).
RepublishShardDescriptor(h, maxOffers, farmerBlacklist) ==
  /\ OffersHas(h) /\ offers[h].earlier = 0
  /\ offers[h].queue = <<>> /\ offers[h].held = NoOffer
  /\ offers' = [offers EXCEPT ![h] = [NewStream(maxOffers, farmerBlacklist)
                                        EXCEPT !.registered = TRUE, !.earlier = 1]]
  /\ UNCHANGED <<now, allowed, draws, shards, contracts, claims, rpc, httpVars,
                 offerRpc, auditRpc>>

\* Node.publishShardDescriptor whose quasarPublish calls back with an
\* error: callback(err), the stream set before the publish stays registered.
PublishShardDescriptorFails(h, maxOffers, farmerBlacklist) ==
  /\ ~OffersHas(h)
  /\ offers' = [offers EXCEPT ![h] = [NewStream(maxOffers, farmerBlacklist)
                                        EXCEPT !.registered = TRUE, !.failed = TRUE]]
  /\ UNCHANGED <<now, allowed, draws, shards, contracts, claims, rpc, httpVars,
                 offerRpc, auditRpc>>

\* An earlier stream of h emits 'end', 'error' or 'destroy': its listener
\* runs this.offers.delete(routingKey).
EarlierStreamEnd(h) ==
  /\ offers[h].earlier > 0
  /\ offers' = [offers EXCEPT ![h] = [Unregister(@) EXCEPT !.earlier = @ - 1]]
  /\ UNCHANGED <<now, allowed, draws, shards, contracts, claims, rpc, httpVars,
                 offerRpc, auditRpc>>

\* Rules.offer, the whole handler: the descriptor is checked, the stream is
\* looked up, and the offer is queued on it; an offer the stream does not
\* admit has its resolver called with the error at once.
OfferLookupFirst(i, contact, descriptor) ==
  LET hash == descriptor.data_hash
      stream == OffersGet(hash)
      o == [IdleOffer EXCEPT !.contact = contact, !.descriptor = descriptor]
      err == QueueError(stream, hash, contact, descriptor)
  IN
  /\ FirstFreeOffer(i)
  /\ IF ~OffersHas(hash)
     THEN /\ offerRpc' = [offerRpc EXCEPT ![i] = Resolver(o, "Offers for descriptor are closed", NoContract)]
          /\ UNCHANGED offers
     ELSE IF ~(IsValid(descriptor) /\ IsComplete(descriptor))
     THEN /\ offerRpc' = [offerRpc EXCEPT ![i] = Resolver(o, "Invalid shard descriptor", NoContract)]
          /\ UNCHANGED offers
     ELSE IF err # ""
     THEN /\ offerRpc' = [offerRpc EXCEPT ![i] = Resolver(o, err, NoContract)]
          /\ UNCHANGED offers
     ELSE /\ offerRpc' = [offerRpc EXCEPT ![i] = [o EXCEPT !.pc = "queued"]]
          /\ offers' = [offers EXCEPT ![hash].queue = Append(@, i)]
  /\ UNCHANGED <<now, allowed, draws, shards, contracts, claims, rpc, httpVars, auditRpc>>
Offer(i, contact, descriptor) ==
  LET hash == descriptor.data_hash
      stream == OffersGet(hash)
      o == [IdleOffer EXCEPT !.contact = contact, !.descriptor = descriptor]
      err == QueueError(stream, hash, contact, descriptor)
  IN
  /\ FirstFreeOffer(i)
  /\ IF ~(IsValid(descriptor) /\ IsComplete(descriptor))
     THEN /\ offerRpc' = [offerRpc EXCEPT ![i] = Resolver(o, "Invalid shard descriptor", NoContract)]
          /\ UNCHANGED offers
     ELSE IF ~OffersHas(hash)
     THEN /\ offerRpc' = [offerRpc EXCEPT ![i] = Resolver(o, "Offers for descriptor are closed", NoContract)]
          /\ UNCHANGED offers
     ELSE IF err # ""
     THEN /\ offerRpc' = [offerRpc EXCEPT ![i] = Resolver(o, err, NoContract)]
          /\ UNCHANGED offers
     ELSE /\ offerRpc' = [offerRpc EXCEPT ![i] = [o EXCEPT !.pc = "queued"]]
          /\ offers' = [offers EXCEPT ![hash].queue = Append(@, i)]
  /\ UNCHANGED <<now, allowed, draws, shards, contracts, claims, rpc, httpVars, auditRpc>>

\* The offers of a stream that have not been resolved: the queued ones and
\* the one the consumer holds.
Pending(stream) ==
  {stream.queue[k] : k \in 1..Len(stream.queue)} \cup ({stream.held} \ {NoOffer})

\* stream.resolvers: the resolve callbacks of the offers the stream has
\* exposed and that are not resolved yet.
Resolvers(stream) == {stream.held} \ {NoOffer}

\* The consumer reads the stream: the offer queued first is exposed.
OfferStreamRead(h) ==
  LET stream == offers[h] IN
  /\ ~stream.ended
  /\ stream.held = NoOffer
  /\ stream.queue # <<>>
  /\ stream.resolved < stream.maxOffers
  /\ offers' = [offers EXCEPT ![h].held = Head(stream.queue), ![h].queue = Tail(stream.queue)]
  /\ offerRpc' = [offerRpc EXCEPT ![Head(stream.queue)].pc = "exposed"]
  /\ UNCHANGED <<now, allowed, draws, shards, contracts, claims, rpc, httpVars, auditRpc>>

\* The stream after one of its offers is resolved, with or without error.
StreamResolvedUncounted(stream, error) ==
  [stream EXCEPT !.held = NoOffer, !.accepted = IF error THEN @ ELSE @ + 1]
StreamResolved(stream, error) ==
  [stream EXCEPT !.held = NoOffer, !.resolved = @ + 1,
                 !.accepted = IF error THEN @ ELSE @ + 1]

\* The stream after a terminal event: nothing is pending any more.
StreamEnded(stream) ==
  [stream EXCEPT !.queue = <<>>, !.held = NoOffer, !.ended = TRUE]

\* The requests after the resolvers of the offers in ids are called with
\* the stream's terminal error.
RejectPending(table, ids) ==
  [j \in OfferIds |-> IF j \in ids THEN Resolver(table[j], "Offer stream ended", NoContract)
                      ELSE table[j]]

\* Node.resolveContractOffer: the consumer resolves offer i of the stream
\* registered for h, with an error or with the finalized contract, and the
\* resolver answers the farmer.  A stream whose maxOffers offers are
\* resolved ends.
ResolveContractOfferFirstQueued(h, i, error) ==
  LET stream == OffersGet(h)
      to == IF stream.queue # <<>> THEN Head(stream.queue) ELSE i
      after == StreamResolved(stream, error)
      full == after.resolved >= after.maxOffers
      answered == [offerRpc EXCEPT ![to] = Resolver(@, IF error THEN "Offer declined" ELSE "",
                                                    offerRpc[i].descriptor)]
  IN
  /\ i \in Resolvers(stream)
  /\ offerRpc' = IF full THEN RejectPending(answered, Pending(after) \ {to}) ELSE answered
  /\ offers' = [offers EXCEPT ![h] = IF full THEN Unregister(StreamEnded(after))
                                      ELSE [after EXCEPT !.queue = IF to = i THEN @ ELSE Tail(@)]]
  /\ UNCHANGED <<now, allowed, draws, shards, contracts, claims, rpc, httpVars, auditRpc>>
ResolveContractOffer(h, i, error) ==
  LET stream == OffersGet(h)
      after == StreamResolved(stream, error)
      full == after.resolved >= after.maxOffers
      answered == [offerRpc EXCEPT ![i] = Resolver(@, IF error THEN "Offer declined" ELSE "",
                                                   offerRpc[i].descriptor)]
  IN
  IF i \notin Resolvers(stream)
  THEN UNCHANGED vars   \* callback(new Error('Offer resolver not found'))
  ELSE
  /\ offerRpc' = IF full THEN RejectPending(answered, Pending(after)) ELSE answered
  /\ offers' = [offers EXCEPT ![h] = IF full THEN Unregister(StreamEnded(after)) ELSE after]
  /\ UNCHANGED <<now, allowed, draws, shards, contracts, claims, rpc, httpVars, auditRpc>>

\* The stream ends, fails or is destroyed: its pending offers are rejected
\* and the listeners of publishShardDescriptor take it out of node.offers.
OfferStreamEndStaysRegistered(h) ==
  /\ ~offers[h].ended
  /\ offerRpc' = RejectPending(offerRpc, Pending(offers[h]))
  /\ offers' = [offers EXCEPT ![h] = StreamEnded(offers[h])]
  /\ UNCHANGED <<now, allowed, draws, shards, contracts, claims, rpc, httpVars, auditRpc>>
OfferStreamEnd(h) ==
  /\ ~offers[h].ended
  /\ offerRpc' = RejectPending(offerRpc, Pending(offers[h]))
  /\ offers' = [offers EXCEPT ![h] = Unregister(StreamEnded(offers[h]))]
  /\ UNCHANGED <<now, allowed, draws, shards, contracts, claims, rpc, httpVars, auditRpc>>

\* The reply or the error has been delivered; the slot is free again.
OfferClose(i) ==
  /\ offerRpc[i].pc = "done"
  /\ offerRpc' = [offerRpc EXCEPT ![i] = IdleOffer]
  /\ UNCHANGED <<now, allowed, draws, shards, contracts, claims, rpc, httpVars, offers,
                 auditRpc>>

(***************************************************************************)
(* AUDIT: the node as farmer proves possession of the shards of a batch,   *)
(* one entry after the other.  ProofStream (lib/proof.js) is modelled from *)
(* its specification.                                                      *)
(***************************************************************************)
MaxBatch == 2
\* The challenges of the model: "c0" belongs to the audit_leaves of every
\* stored contract, "bad" does not.
Challenges == {"c0", "bad"}
AuditEntries == [hash : Hashes, challenge : Challenges]
\* request.params: a list of entries, or something that is not a list.
NotAList == [list |-> FALSE, entries |-> <<>>]
AuditParams ==
  {NotAList} \cup
  {[list |-> TRUE, entries |-> b] : b \in UNION {[1..n -> AuditEntries] : n \in 0..MaxBatch}}

\* proof: null, and proofStream.getProofResult().
NoProof == <<>>
GetProofResult(hash, challenge) == <<hash, challenge>>
\* The ProofStream fails at the end of the shard when the response to the
\* challenge is not a leaf of the contract's audit_leaves.
ProofFails(challenge) == challenge # "c0"

\* An AUDIT request: where its handler stands, what it received, the
\* results of the entries done so far, and what it answered.
IdleAudit ==
  [pc |-> "idle", contact |-> Renter, params |-> NotAList, proofs |-> <<>>,
   status |-> "", message |-> ""]

\* The entry of the batch that async.mapSeries is at.
Entry(a) == a.params.entries[Len(a.proofs) + 1]

\* done(null, {hash, proof}): the result is kept; mapSeries goes on with the
\* next entry (its contracts.get is issued) or, after the last one, calls
\* response.send(proofs).
Done(a, proof) ==
  LET proofs == Append(a.proofs, [hash |-> Entry(a).hash, proof |-> proof])
  IN IF Len(proofs) = Len(a.params.entries)
     THEN [a EXCEPT !.proofs = proofs, !.pc = "done", !.status = "ok"]
     ELSE [a EXCEPT !.proofs = proofs, !.pc = "get"]

\* Rules.audit taking whatever async.mapSeries makes of params.
AuditStartNoCheck(r, contact, params) ==
  LET a == [IdleAudit EXCEPT !.contact = contact, !.params = params] IN
  /\ auditRpc[r].pc = "idle"
  /\ auditRpc' = [auditRpc EXCEPT ![r] =
                    IF params.entries = <<>>
                    THEN [a EXCEPT !.pc = "done", !.status = "ok"]
                    ELSE [a EXCEPT !.pc = "get"]]
  /\ UNCHANGED <<now, allowed, draws, shards, contracts, claims, rpc, httpVars, offerVars>>
\* Rules.audit: params that are not a list are refused; an empty batch is
\* answered at once; otherwise contracts.get is issued for the first entry.
AuditStart(r, contact, params) ==
  LET a == [IdleAudit EXCEPT !.contact = contact, !.params = params] IN
  /\ auditRpc[r].pc = "idle"
  /\ auditRpc' = [auditRpc EXCEPT ![r] =
                    IF ~params.list
                    THEN [a EXCEPT !.pc = "done", !.status = "error",
                                   !.message = "Invalid audit batch supplied"]
                    ELSE IF params.entries = <<>>
                    THEN [a EXCEPT !.pc = "done", !.status = "ok"]
                    ELSE [a EXCEPT !.pc = "get"]]
  /\ UNCHANGED <<now, allowed, draws, shards, contracts, claims, rpc, httpVars, offerVars>>

\* Rules.audit handing the error of contracts.get to next.
AuditGotFails(r, ioError) ==
  LET a == auditRpc[r]
      key == ContractKey(Entry(a).hash, a.contact.xpub)
      err == GetError(key, ioError)
  IN /\ a.pc = "get"
     /\ auditRpc' = [auditRpc EXCEPT ![r] =
                       IF err # ""
                       THEN [a EXCEPT !.pc = "done", !.status = "error", !.message = err]
                       ELSE [a EXCEPT !.pc = "open"]]
     /\ UNCHANGED <<now, allowed, draws, shards, contracts, claims, rpc, httpVars, offerVars>>
\* Rules.audit, the contracts.get callback of the current entry: an error
\* gives proof null, otherwise the ProofStream is built and
\* shards.createReadStream is called.
AuditGot(r, ioError) ==
  LET a == auditRpc[r]
      key == ContractKey(Entry(a).hash, a.contact.xpub)
  IN /\ a.pc = "get"
     /\ auditRpc' = [auditRpc EXCEPT ![r] =
                       IF GetError(key, ioError) # "" THEN Done(a, NoProof)
                       ELSE [a EXCEPT !.pc = "open"]]
     /\ UNCHANGED <<now, allowed, draws, shards, contracts, claims, rpc, httpVars, offerVars>>

\* Rules.audit, the createReadStream callback: an error gives proof null,
\* otherwise the shard is piped into the ProofStream.
AuditOpened(r, ioError) ==
  LET a == auditRpc[r] IN
  /\ a.pc = "open"
  /\ auditRpc' = [auditRpc EXCEPT ![r] =
                    IF ioError \/ ~ShardExists(shards, Entry(a).hash)
                    THEN Done(a, NoProof)
                    ELSE [a EXCEPT !.pc = "pipe"]]
  /\ UNCHANGED <<now, allowed, draws, shards, contracts, claims, rpc, httpVars, offerVars>>

\* The shard has been read to its end: the ProofStream emits 'finish' and
\* the proof is the result, or it emits 'error' and the result is null.
AuditProofEnd(r) ==
  LET a == auditRpc[r] IN
  /\ a.pc = "pipe"
  /\ auditRpc' = [auditRpc EXCEPT ![r] =
                    IF ProofFails(Entry(a).challenge) THEN Done(a, NoProof)
                    ELSE Done(a, GetProofResult(Entry(a).hash, Entry(a).challenge))]
  /\ UNCHANGED <<now, allowed, draws, shards, contracts, claims, rpc, httpVars, offerVars>>

\* The shard stream emits 'error' while it is piped: pipe() does not pass
\* the error on to the ProofStream and shardStream has no 'error' listener,
\* so neither done nor response.send is ever called for this request.
AuditShardStreamError(r) ==
  /\ auditRpc[r].pc = "pipe"
  /\ auditRpc' = [auditRpc EXCEPT ![r].pc = "lost"]
  /\ UNCHANGED <<now, allowed, draws, shards, contracts, claims, rpc, httpVars, offerVars>>

\* The reply or the error has been delivered, or the transport has given
\* up waiting for one; the slot is free again.
AuditClose(r) ==
  /\ auditRpc[r].pc \in {"done", "lost"}
  /\ auditRpc' = [auditRpc EXCEPT ![r] = IdleAudit]
  /\ UNCHANGED <<now, allowed, draws, shards, contracts, claims, rpc, httpVars, offerVars>>

(***************************************************************************)
(* The reaper (FarmerProfile.reapExpiredShards).                           *)
(***************************************************************************)
\* ms('24h'), in the clock's unit of twelve hours.
Grace == 2

\* No scan under way.  time is the scan's Date.now(); rest is what the
\* store's read stream has still to emit; key and value are the entry the
\* 'data' listener is at.
IdleReaper ==
  [pc |-> "idle", time |-> 0, rest |-> <<>>, key |-> <<>>, value |-> NoContract]

\* reapExpiredShards: the time is taken and the read stream is created.
ReapStart ==
  /\ reaper.pc = "idle"
  /\ reaper' = [IdleReaper EXCEPT !.pc = "scan", !.time = now, !.rest = contracts]
  /\ UNCHANGED <<now, allowed, draws, shards, http, completed, contracts, claims,
                 rpc, offerVars, auditRpc, announcement>>

\* rs.on('data'): the stream is paused; the shard of a contract whose
\* store_end is less than time + 24h is unlinked, else the stream resumes.
ReapData(k) ==
  /\ reaper.pc = "scan" /\ k \in DOMAIN reaper.rest
  /\ LET value == reaper.rest[k]
         r == [reaper EXCEPT !.rest = MapDelete(reaper.rest, k)]
     IN reaper' = IF value.store_end < reaper.time + Grace
                  THEN [r EXCEPT !.pc = "unlink", !.key = k, !.value = value]
                  ELSE r
  /\ UNCHANGED <<now, allowed, draws, shards, http, completed, contracts, claims,
                 rpc, offerVars, auditRpc, announcement>>

\* The callback of shards.unlink: on an error the stream resumes, else
\* contracts.del is issued.
ReapUnlinked(ioError) ==
  /\ reaper.pc = "unlink"
  /\ IF ioError
     THEN /\ reaper' = [reaper EXCEPT !.pc = "scan", !.key = <<>>, !.value = NoContract]
          /\ UNCHANGED shards
     ELSE /\ shards' = ShardUnlink(shards, reaper.value.data_hash)
          /\ reaper' = [reaper EXCEPT !.pc = "del"]
  /\ UNCHANGED <<now, allowed, draws, http, completed, contracts, claims,
                 rpc, offerVars, auditRpc, announcement>>

\* The callback of contracts.del, whose error is not looked at: the stream
\* resumes.
ReapDeleted(ioError) ==
  /\ reaper.pc = "del"
  /\ contracts' = IF ioError THEN contracts ELSE MapDelete(contracts, reaper.key)
  /\ reaper' = [reaper EXCEPT !.pc = "scan", !.key = <<>>, !.value = NoContract]
  /\ UNCHANGED <<now, allowed, draws, shards, http, completed, claims,
                 rpc, offerVars, auditRpc, announcement>>

\* rs.on('end')
ReapEnd ==
  /\ reaper.pc = "scan" /\ DOMAIN reaper.rest = {}
  /\ reaper' = IdleReaper
  /\ UNCHANGED <<now, allowed, draws, shards, http, completed, contracts, claims,
                 rpc, offerVars, auditRpc, announcement>>

(***************************************************************************)
(* Capacity announcements (FarmerProfile.announceCapacity).                *)
(***************************************************************************)
\* data.available as shards.size may report it.
Availables == {-1, 0, 1}

\* No announcement under way.  available is the data of the last call of
\* publishCapacityAnnouncement; closed is history: some call so far had
\* data.available <= 0.
IdleAnnouncement == [pc |-> "idle", available |-> 1, closed |-> FALSE]

\* announceCapacity: shards.size is issued.
AnnounceStart ==
  /\ announcement.pc = "idle"
  /\ announcement' = [announcement EXCEPT !.pc = "size"]
  /\ UNCHANGED <<now, allowed, draws, shards, http, completed, contracts, claims,
                 rpc, offerVars, auditRpc, reaper>>

\* publishCapacityAnnouncement giving the allow-list back when there is
\* capacity again.
AnnounceSizedRestores(ioError, available) ==
  /\ announcement.pc = "size"
  /\ IF ioError
     THEN /\ announcement' = [announcement EXCEPT !.pc = "idle"]
          /\ UNCHANGED claims
     ELSE /\ claims' = IF available > 0 THEN <<"*">> ELSE <<>>
          /\ announcement' = [announcement EXCEPT
                                !.pc = "publish", !.available = available,
                                !.closed = @ \/ ~(available > 0)]
  /\ UNCHANGED <<now, allowed, draws, shards, http, completed, contracts,
                 rpc, offerVars, auditRpc, reaper>>

\* The callback of shards.size: on an error nothing is announced; else
\* Node.publishCapacityAnnouncement is called with data, which empties
\* this.claims unless data.available > 0 and issues quasarPublish.
AnnounceSized(ioError, available) ==
  /\ announcement.pc = "size"
  /\ IF ioError
     THEN /\ announcement' = [announcement EXCEPT !.pc = "idle"]
          /\ UNCHANGED claims
     ELSE /\ claims' = IF available > 0 THEN claims ELSE <<>>
          /\ announcement' = [announcement EXCEPT
                                !.pc = "publish", !.available = available,
                                !.closed = @ \/ ~(available > 0)]
  /\ UNCHANGED <<now, allowed, draws, shards, http, completed, contracts,
                 rpc, offerVars, auditRpc, reaper>>

\* The callback of quasarPublish: the outcome is logged.
AnnouncePublished ==
  /\ announcement.pc = "publish"
  /\ announcement' = [announcement EXCEPT !.pc = "idle"]
  /\ UNCHANGED <<now, allowed, draws, shards, http, completed, contracts, claims,
                 rpc, offerVars, auditRpc, reaper>>

Init ==
  /\ now = 0
  /\ allowed = <<>>
  /\ draws = 0
  /\ shards = [h \in Hashes |-> NoShard]
  /\ http = [q \in HttpIds |-> IdleHttp]
  /\ completed = {}
  /\ contracts = <<>>
  /\ claims = <<>>
  /\ rpc = [r \in OverlapIds |-> IdleRpc]
  /\ offers = [h \in Hashes |-> NoStream]
  /\ offerRpc = [i \in OfferIds |-> IdleOffer]
  /\ auditRpc = [r \in OverlapIds |-> IdleAudit]
  /\ reaper = IdleReaper
  /\ announcement = IdleAnnouncement

Next ==
  \/ \E q \in HttpIds, t \in Presentable, h \in Hashes \cup {NoHash},
          b \in Bodies : UploadStart(q, t, h, b)
  \/ \E q \in HttpIds, e \in BOOLEAN, c \in ContractRows : UploadFindOne(q, e, c)
  \/ \E q \in HttpIds, e \in BOOLEAN : UploadCreateWriteStream(q, e)
  \/ \E q \in HttpIds, n \in 1..MaxBody : UploadData(q, n)
  \/ \E q \in HttpIds : UploadEnd(q)
  \/ \E q \in HttpIds, t \in Presentable, h \in Hashes \cup {NoHash} :
       DownloadStart(q, t, h)
  \/ \E q \in HttpIds, e \in BOOLEAN : DownloadCreateReadStream(q, e)
  \/ \E q \in HttpIds : DownloadStreamEnd(q)
  \/ \E q \in HttpIds : DownloadStreamError(q)
  \/ \E q \in HttpIds : HttpClose(q)
  \/ \E h \in Hashes : draws = 0 /\ AcceptToken(h, Renter)
  \/ ReapExpiredTokens
  \/ Tick

\* The shard server with two connections and the life of one token.
Spec == Init /\ [][Next]_vars


\* A contract this node made earlier with the renter for shard h.
Stored(h) ==
  Finalized(SignRenter([NoContract EXCEPT !.data_hash = h,
                                          !.renter_hd_key = Renter.xpub,
                                          !.store_end = 1],
                       Renter.xpub))

\* The contract stores the node may start with: contracts of earlier runs.
StoredContracts ==
  {[k \in {ContractKey(h, Renter.xpub) : h \in D} |-> Stored(k[1])] :
     D \in SUBSET Hashes}

\* A node that holds shard h1 and not h2.
InitRules ==
  /\ now = 0
  /\ allowed = <<>>
  /\ draws = 0
  /\ shards = [h \in Hashes |-> IF h = "h1"
                                THEN [present |-> TRUE, data |-> ShardBytes[h]]
                                ELSE NoShard]
  /\ http = [q \in HttpIds |-> IdleHttp]
  /\ completed = {}
  /\ contracts \in StoredContracts
  /\ claims \in ClaimLists
  /\ rpc = [r \in OverlapIds |-> IdleRpc]
  /\ offers = [h \in Hashes |-> NoStream]
  /\ offerRpc = [i \in OfferIds |-> IdleOffer]
  /\ auditRpc = [r \in OverlapIds |-> IdleAudit]
  /\ reaper = IdleReaper
  /\ announcement = IdleAnnouncement

NextRules ==
  \/ \E r \in RpcIds, c \in Contacts, h \in Hashes : ConsignStart(r, c, h)
  \/ \E r \in RpcIds, e \in BOOLEAN : ConsignGot(r, e)
  \/ \E r \in RpcIds, c \in Contacts, h \in Hashes : RetrieveStart(r, c, h)
  \/ \E r \in RpcIds, e \in BOOLEAN : RetrieveGot(r, e)
  \/ \E r \in RpcIds, e \in BOOLEAN : RetrieveExists(r, e)
  \/ \E r \in RpcIds, c \in Contacts, d \in Offers : ClaimStart(r, c, d)
  \/ \E r \in RpcIds, e \in BOOLEAN : ClaimPut(r, e)
  \/ \E r \in RpcIds, c \in Contacts, d \in {x \in Renewals : IsComplete(x)} :
       RenewStart(r, c, d)
  \/ \E r \in RpcIds, e \in BOOLEAN : RenewGot(r, e)
  \/ \E r \in RpcIds, e \in BOOLEAN : RenewPut(r, e)
  \/ \E r \in RpcIds : RpcClose(r)
  \/ Tick

\* The handlers serving one request at a time, the clock running between
\* its callbacks.
SpecRules == InitRules /\ [][NextRules]_vars


NextRenew ==
  \/ \E r \in RpcIds, c \in Contacts, d \in Renewals : RenewStart(r, c, d)
  \/ \E r \in RpcIds, e \in BOOLEAN : RenewGot(r, e)
  \/ \E r \in RpcIds, e \in BOOLEAN : RenewPut(r, e)
  \/ \E r \in RpcIds : RpcClose(r)

\* RENEW alone, with every descriptor a renter may send.
SpecRenew == InitRules /\ [][NextRenew]_vars

(***************************************************************************)
(* The contract store as the node's client side writes it (Node).          *)
(***************************************************************************)
\* A JavaScript array holding one item: an object whose property "0" is it.
ArrayOf(item) == [i \in {"0"} |-> item]

\* What a peer answers OFFER or RENEW with: a descriptor for a shard this
\* node published with the peer's own farmer side, complete, without its
\* signature or with a signature of another key.
PeerReplies(peer) ==
  {OfferDescriptor(h, peer, how) : h \in Published, how \in {"complete", "unsigned", "forged"}}

\* Node.offerShardAllocation: the callback of send('OFFER') and the
\* contracts.put it issues.
OfferShardAllocation(peer, err, result, ioError) ==
  /\ IF err \/ ~(IsValid(result) /\ IsComplete(result)) \/ ioError
     THEN UNCHANGED contracts
     ELSE contracts' = MapSet(contracts, ContractKey(result.data_hash, peer.xpub), result)
  /\ UNCHANGED <<now, allowed, draws, shards, claims, rpc, httpVars, offerVars, auditRpc>>

\* Node.requestContractRenewal: the callback of send('RENEW') and the
\* contracts.put it issues, which is handed result and not result[0].
RequestContractRenewal(peer, err, result, ioError) ==
  /\ IF err \/ ~(IsValid(result) /\ IsComplete(result)) \/ ioError
     THEN UNCHANGED contracts
     ELSE contracts' = MapSet(contracts, ContractKey(result.data_hash, peer.xpub),
                              ArrayOf(result))
  /\ UNCHANGED <<now, allowed, draws, shards, claims, rpc, httpVars, offerVars, auditRpc>>

\* The renewals of a renter that hands the contract over to another key:
\* complete renewals for this node, renter_hd_key set and signed anew.
KeyRenewals ==
  {SignRenter([c EXCEPT !.renter_hd_key = x], x) :
     c \in {d \in Renewals : IsComplete(d) /\ d.farmer_hd_key = NodeXpub /\ d.store_end = 1},
     x \in Xpubs}

NextStore ==
  \/ \E r \in RpcIds, c \in Contacts, d \in {x \in Offers : x.store_end = 1} :
       ClaimStart(r, c, d)
  \/ \E r \in RpcIds, e \in BOOLEAN : ClaimPut(r, e)
  \/ \E r \in RpcIds, c \in Contacts, d \in KeyRenewals : RenewStart(r, c, d)
  \/ \E r \in RpcIds, e \in BOOLEAN : RenewGot(r, e)
  \/ \E r \in RpcIds, e \in BOOLEAN : RenewPut(r, e)
  \/ \E p \in Farmers, e, io \in BOOLEAN : \E d \in PeerReplies(p) :
       OfferShardAllocation(p, e, d, io)
  \/ \E p \in Farmers, e, io \in BOOLEAN : \E d \in PeerReplies(p) :
       RequestContractRenewal(p, e, d, io)
  \/ \E r \in RpcIds : RpcClose(r)

\* The node as farmer (CLAIM, RENEW) and as client (offerShardAllocation,
\* requestContractRenewal) writing its contract store.
SpecStore == InitRules /\ [][NextStore]_vars

NextOverlap ==
  \/ \E r \in OverlapIds, c \in Contacts, d \in KeyRenewals : RenewStart(r, c, d)
  \/ \E r \in OverlapIds, e \in BOOLEAN : RenewGot(r, e)
  \/ \E r \in OverlapIds, e \in BOOLEAN : RenewPut(r, e)
  \/ \E r \in OverlapIds, c \in Contacts,
          d \in {x \in Offers : x.store_end = 1 /\ x.data_hash \in Hashes} :
       ClaimStart(r, c, d)
  \/ \E r \in OverlapIds, e \in BOOLEAN : ClaimPut(r, e)
  \/ \E r \in OverlapIds : RpcClose(r)

\* RENEW and CLAIM handlers of two requests taking turns at their
\* callbacks.
SpecOverlap == InitRules /\ [][NextOverlap]_vars

NextAuditOverlap ==
  \/ \E r \in OverlapIds, p \in {x \in AuditParams : x.list} : AuditStart(r, Renter, p)
  \/ \E r \in OverlapIds, e \in BOOLEAN : AuditGot(r, e)
  \/ \E r \in OverlapIds, e \in BOOLEAN : AuditOpened(r, e)
  \/ \E r \in OverlapIds : AuditProofEnd(r)
  \/ \E r \in OverlapIds : AuditShardStreamError(r)
  \/ \E r \in OverlapIds : AuditClose(r)

\* Two AUDIT requests of one peer taking turns at their callbacks.
SpecAuditOverlap == InitRules /\ [][NextAuditOverlap]_vars

\* The contract stores of a farmer that holds h1 for no renter, for one or
\* for two, each contract ending at 1 or at 2.
ReapStores ==
  {[k \in D |-> [Stored(k[1]) EXCEPT !.renter_hd_key = k[2], !.store_end = e[k]]] :
     D \in SUBSET {ContractKey("h1", "xA"), ContractKey("h1", "xB")},
     e \in [{ContractKey("h1", "xA"), ContractKey("h1", "xB")} -> {1, 2}]}

InitReap ==
  /\ now = 0
  /\ allowed = <<>>
  /\ draws = 0
  /\ shards = [h \in Hashes |-> [present |-> TRUE, data |-> ShardBytes[h]]]
  /\ http = [q \in HttpIds |-> IdleHttp]
  /\ completed = {}
  /\ contracts \in ReapStores
  /\ claims = <<>>
  /\ rpc = [r \in OverlapIds |-> IdleRpc]
  /\ offers = [h \in Hashes |-> NoStream]
  /\ offerRpc = [i \in OfferIds |-> IdleOffer]
  /\ auditRpc = [r \in OverlapIds |-> IdleAudit]
  /\ reaper = IdleReaper
  /\ announcement = IdleAnnouncement

NextReap ==
  \/ ReapStart
  \/ \E k \in DOMAIN reaper.rest : ReapData(k)
  \/ \E e \in BOOLEAN : ReapUnlinked(e)
  \/ \E e \in BOOLEAN : ReapDeleted(e)
  \/ ReapEnd
  \/ Tick

\* The reaper scanning the contract store as the clock runs.
SpecReap == InitReap /\ [][NextReap]_vars

\* A shard server that holds h1 from an upload completed earlier.
InitStored ==
  /\ now = 0
  /\ allowed = <<>>
  /\ draws = 0
  /\ shards = [h \in Hashes |-> IF h = "h1"
                                THEN [present |-> TRUE, data |-> ShardBytes[h]]
                                ELSE NoShard]
  /\ http = [q \in HttpIds |-> IdleHttp]
  /\ completed = {}
  /\ contracts = <<>>
  /\ claims = <<>>
  /\ rpc = [r \in OverlapIds |-> IdleRpc]
  /\ offers = [h \in Hashes |-> NoStream]
  /\ offerRpc = [i \in OfferIds |-> IdleOffer]
  /\ auditRpc = [r \in OverlapIds |-> IdleAudit]
  /\ reaper = IdleReaper
  /\ announcement = IdleAnnouncement

\* The shard server after a completed upload of h1, a new token accepted.
SpecStored == InitStored /\ [][Next]_vars

NextTransfer ==
  \/ \E r \in RpcIds, h \in Hashes : ConsignStart(r, Renter, h)
  \/ \E r \in RpcIds, e \in BOOLEAN : ConsignGot(r, e)
  \/ \E r \in RpcIds, h \in Hashes : RetrieveStart(r, Renter, h)
  \/ \E r \in RpcIds, e \in BOOLEAN : RetrieveGot(r, e)
  \/ \E r \in RpcIds, e \in BOOLEAN : RetrieveExists(r, e)
  \/ \E r \in RpcIds : RpcClose(r)
  \/ \E q \in {1}, t \in Presentable, h \in Hashes, b \in Bodies :
       UploadStart(q, t, h, b)
  \/ \E q \in {1}, e \in BOOLEAN, c \in ContractRows : UploadFindOne(q, e, c)
  \/ \E q \in {1}, e \in BOOLEAN : UploadCreateWriteStream(q, e)
  \/ \E q \in {1}, n \in 1..MaxBody : UploadData(q, n)
  \/ \E q \in {1} : UploadEnd(q)
  \/ \E q \in {1}, t \in Presentable, h \in Hashes : DownloadStart(q, t, h)
  \/ \E q \in {1}, e \in BOOLEAN : DownloadCreateReadStream(q, e)
  \/ \E q \in {1} : DownloadStreamEnd(q)
  \/ \E q \in {1} : DownloadStreamError(q)
  \/ \E q \in {1} : HttpClose(q)

\* CONSIGN and RETRIEVE minting tokens that the shard server is then
\* presented with, over one connection.
SpecTransfer == InitRules /\ [][NextTransfer]_vars

NextRegistry ==
  \/ \E h \in Hashes, n \in MaxOffersOptions, b \in Blacklists :
        PublishShardDescriptor(h, n, b)
  \/ \E h \in Hashes, n \in MaxOffersOptions, b \in Blacklists :
        RepublishShardDescriptor(h, n, b)
  \/ \E h \in Hashes, n \in MaxOffersOptions, b \in Blacklists :
        PublishShardDescriptorFails(h, n, b)
  \/ \E h \in Hashes : EarlierStreamEnd(h)
  \/ \E h \in Hashes : OfferStreamEnd(h)

\* The offer registry as descriptors are published, published again and
\* their streams end.
SpecRegistry == Init /\ [][NextRegistry]_vars

NextCapacity ==
  \/ AnnounceStart
  \/ \E e \in BOOLEAN, a \in Availables : AnnounceSized(e, a)
  \/ AnnouncePublished
  \/ \E r \in RpcIds, c \in Contacts, d \in {x \in Offers : x.store_end = 1} :
       ClaimStart(r, c, d)
  \/ \E r \in RpcIds, e \in BOOLEAN : ClaimPut(r, e)
  \/ \E r \in RpcIds : RpcClose(r)

\* The farmer announcing its capacity while CLAIM requests come in.
SpecCapacity == InitRules /\ [][NextCapacity]_vars

NextMirror ==
  \/ \E r \in RpcIds, c \in Contacts, h \in Hashes : MirrorStart(r, c, h)
  \/ \E r \in RpcIds, e \in BOOLEAN : MirrorGot(r, e)
  \/ \E r \in RpcIds, e \in BOOLEAN : MirrorOpened(r, e)
  \/ \E r \in RpcIds : MirrorUploadError(r)
  \/ \E r \in RpcIds : MirrorShardStreamError(r)
  \/ \E r \in RpcIds, c \in UploadAnswers : MirrorResponse(r, c)
  \/ \E r \in RpcIds, d \in AnswerBodies : MirrorResponseData(r, d)
  \/ \E r \in RpcIds : MirrorResponseEnd(r)
  \/ \E r \in RpcIds : MirrorTimeout(r)
  \/ \E r \in RpcIds : RpcClose(r)

\* The MIRROR handler serving one request at a time.
SpecMirror == InitRules /\ [][NextMirror]_vars

(***************************************************************************)
(* The node as renter: descriptors are published, farmers send OFFER, the  *)
(* consumer reads and resolves the offers, and streams end.                *)
(***************************************************************************)
NextOffers ==
  \/ \E h \in Published, n \in MaxOffersOptions, b \in Blacklists :
        PublishShardDescriptor(h, n, b)
  \/ \E i \in OfferIds, f \in Farmers, d \in OfferDescriptors :
        d.farmer_hd_key = f.xpub /\ Offer(i, f, d)
  \/ \E h \in Hashes : OfferStreamRead(h)
  \/ \E h \in Hashes, i \in OfferIds, e \in BOOLEAN : ResolveContractOffer(h, i, e)
  \/ \E h \in Hashes : OfferStreamEnd(h)
  \/ \E i \in OfferIds : OfferClose(i)

SpecOffers == Init /\ [][NextOffers]_vars

(***************************************************************************)
(* The node as farmer under audit: batches arrive from both contacts, over *)
(* the preloaded contract store and the shard store of InitRules.          *)
(***************************************************************************)
NextAudit ==
  \/ \E r \in RpcIds, c \in Contacts, p \in AuditParams : AuditStart(r, c, p)
  \/ \E r \in RpcIds, e \in BOOLEAN : AuditGot(r, e)
  \/ \E r \in RpcIds, e \in BOOLEAN : AuditOpened(r, e)
  \/ \E r \in RpcIds : AuditProofEnd(r)
  \/ \E r \in RpcIds : AuditShardStreamError(r)
  \/ \E r \in RpcIds : AuditClose(r)

SpecAudit == InitRules /\ [][NextAudit]_vars

\* Every contracts.get and every createReadStream calls back, and a shard
\* stream that is piped ends or fails.
FairAudit ==
  \A r \in RpcIds :
    /\ WF_vars(\E e \in BOOLEAN : AuditGot(r, e))
    /\ WF_vars(\E e \in BOOLEAN : AuditOpened(r, e))
    /\ WF_vars(AuditProofEnd(r) \/ AuditShardStreamError(r))

SpecAuditFair == InitRules /\ [][NextAudit]_vars /\ FairAudit

(***************************************************************************)
(* The shard server's claims.                                              *)
(***************************************************************************)
\* Request q is answered in this step.
Answered(q) == http[q].statusCode = 0 /\ http'[q].statusCode # 0

\* Request q arrives in this step (authorize is run in the same step).
Arrives(q) == http[q].kind = "idle" /\ http'[q].kind # "idle"

\* The body of upload q: what the handler has hashed and what is to come.
Body(q) == http[q].hasher \o http[q].rest

\* C1 as stated: an upload is answered 200 if and only if its token is live
\* for the hash, its body is no longer than the size the contract declares
\* and the body's RIPEMD160(SHA256) is the hash.  (Refuted by an upload that
\* meets all three and is answered 500, the write stream failing to open.)
C1_AcceptedIffLiveSizedHashed ==
  [][\A q \in HttpIds :
       (http'[q].kind = "upload" /\ Answered(q)) =>
         (http'[q].statusCode = 200 <=>
            /\ http'[q].live
            /\ http[q].pc \in {"createWriteStream", "receiving"}
            /\ Len(Body(q)) <= http[q].shardSize
            /\ Rmd160Sha256(Body(q)) = http[q].hash)]_vars

\* C1 amended: an upload is answered 200 if and only if its token is live for
\* the hash, the contract was found and the write stream opened, the body is
\* no longer than the declared size and hashes to the hash; an upload whose
\* whole body fits but hashes to something else is answered 400 "Hash does not
\* match contract"; every upload answered 400 leaves no shard under its hash at
\* that moment, and one answered 401, 404 or 500 has not touched the store.
C1_UploadAccepted ==
  [][\A q \in HttpIds :
       (http'[q].kind = "upload" /\ Answered(q)) =>
         /\ http'[q].statusCode = 200 <=>
              /\ http'[q].live
              /\ http[q].pc = "receiving"
              /\ Len(Body(q)) <= http[q].shardSize
              /\ Rmd160Sha256(Body(q)) = http[q].hash
         /\ ( /\ http[q].pc = "receiving"
              /\ Len(Body(q)) <= http[q].shardSize
              /\ Rmd160Sha256(Body(q)) # http[q].hash )
              => /\ http'[q].statusCode = 400
                 /\ http'[q].message = "Hash does not match contract"
         /\ http'[q].statusCode = 400 => ~ShardExists(shards', http'[q].hash)
         /\ http'[q].statusCode \in {401, 404, 500} => shards' = shards]_vars

\* C1's case: one upload refused for its hash, another accepted.
C1_Witness ==
  /\ \E q \in HttpIds :
       /\ http[q].kind = "upload" /\ http[q].statusCode = 400
       /\ http[q].message = "Hash does not match contract"
       /\ ~ShardExists(shards, http[q].hash)
  /\ \E q \in HttpIds : http[q].kind = "upload" /\ http[q].statusCode = 200

\* C2: once a transfer authorized by token T has completed (upload answered
\* 200, download stream ended), every request that arrives later with T is
\* answered 401, whatever hash it names.
C2_TokenSingleUse ==
  [][\A q \in HttpIds :
       (Arrives(q) /\ http'[q].token \in completed) =>
         http'[q].statusCode = 401]_vars

\* C2's case: a request refused with the token of a completed transfer.
C2_Witness ==
  \E q \in HttpIds :
    /\ http[q].token \in completed
    /\ http[q].statusCode = 401
    /\ http[q].message = "The token is not accepted"

\* Request q has passed authorize (it is in flight or was answered past it).
Passed(q) == http[q].kind # "idle" /\ http[q].statusCode # 401

\* C3 as stated: for each token at most one request passes authorize, also
\* among requests that overlap in time.
C3_OneTransferPerToken ==
  \A p, q \in HttpIds :
    (Passed(p) /\ Passed(q) /\ http[p].token = http[q].token) => p = q

\* C4: authorize(token, hash) succeeds exactly when a record for the token is
\* in the table, is not expired and names the hash; a record with expires <
\* now is refused while still in the table; a request is refused with 401
\* exactly when authorize fails, and authorizing leaves the table as it was.
C4_Authorize ==
  /\ [](\A t \in Tokens \cup {NoToken}, h \in Hashes \cup {NoHash} :
          /\ AuthorizeError(t, h) = "" <=> LiveFor(t, h)
          /\ (t \in DOMAIN allowed /\ allowed[t].expires < now)
               => AuthorizeError(t, h) # "")
  /\ [][\A q \in HttpIds :
          Arrives(q) =>
            /\ http'[q].statusCode = 401 <=> ~LiveFor(http'[q].token, http'[q].hash)
            /\ allowed' = allowed]_vars

\* C4's case: a record that the sweep has not removed yet refuses a request.
C4_Witness ==
  \E q \in HttpIds :
    /\ http[q].token \in DOMAIN allowed
    /\ allowed[http[q].token].expires < now
    /\ allowed[http[q].token].hash = http[q].hash
    /\ http[q].statusCode = 401
    /\ http[q].message = "Token expired"


(***************************************************************************)
(* The handlers' claims.                                                   *)
(***************************************************************************)
\* Request r gets its reply or its error in this step.
Replies(r) == rpc[r].pc # "done" /\ rpc'[r].pc = "done"

\* Request r arrives in this step (its first callback runs in the same step).
Received(r) == rpc[r].kind = "idle" /\ rpc'[r].kind # "idle"

\* The errors contracts.get and contracts.put call back with.
StoreErrors == {"Not found", "Contract store error"}

\* The key CONSIGN, RETRIEVE and RENEW look the contract up under.
LookupKey(r) == ContractKey(rpc[r].hash, rpc[r].contact.xpub)

\* C5: a CONSIGN for hash H from a contact with key X ends with the store's
\* error when the lookup of 'H:X' fails; otherwise it ends with 'Contract has
\* expired' if and only if now > store_end of the contract stored there, and
\* with now <= store_end it replies [token], the token accepted.
C5_ConsignExpiry ==
  [][\A r \in RpcIds :
       (rpc[r].kind = "consign" /\ Replies(r)) =>
         LET found == LookupKey(r) \in DOMAIN contracts
             failed == rpc'[r].message \in StoreErrors
             expired == now > contracts[LookupKey(r)].store_end
         IN /\ ~found => failed
            /\ failed => rpc'[r].status = "error"
            /\ ~failed =>
                 /\ (rpc'[r].status = "error"
                       /\ rpc'[r].message = "Contract has expired") <=> expired
                 /\ ~expired => /\ rpc'[r].status = "ok"
                                /\ rpc'[r].token # NoToken
                                /\ rpc'[r].token \in DOMAIN allowed']_vars

\* A CONSIGN answered 'Contract has expired', and one answered with a token
\* at the very end of its contract (now = store_end).
C5_Witness ==
  \E r \in RpcIds :
    /\ rpc[r].kind = "consign" /\ rpc[r].pc = "done"
    /\ \/ rpc[r].message = "Contract has expired"
       \/ /\ rpc[r].status = "ok"
          /\ LookupKey(r) \in DOMAIN contracts
          /\ now = contracts[LookupKey(r)].store_end
          /\ allowed[rpc[r].token].expires = now + Ttl

\* C6: the token table and the contract store change only in the step that
\* sends a successful reply; a CONSIGN, RETRIEVE, CLAIM or RENEW that ends
\* with an error has, from its arrival to its error, accepted no token and
\* persisted nothing.
C6_ErrorLeavesNoTrace ==
  [][\A r \in RpcIds :
       (rpc'[r] # rpc[r] /\ ~(Replies(r) /\ rpc'[r].status = "ok")) =>
         /\ allowed' = allowed
         /\ contracts' = contracts]_vars

\* A request has ended with one of the handlers' errors.
C6_Witness ==
  \E r \in RpcIds :
    /\ rpc[r].pc = "done" /\ rpc[r].status = "error"
    /\ rpc[r].message \in {"Contract has expired", "Shard not found",
                           "Rejecting renewal of farmer_hd_key"}

\* C7: the token of a successful CONSIGN, RETRIEVE or CLAIM reply is, in the
\* step that sends the reply, a new key of the token table whose record has
\* the request's shard hash, the requesting contact and expires = now + TTL;
\* the step adds that one record and changes no other.
C7_RepliedTokenAccepted ==
  [][\A r \in RpcIds :
       (/\ rpc[r].kind \in {"consign", "retrieve", "claim"}
        /\ Replies(r) /\ rpc'[r].status = "ok") =>
         LET token == rpc'[r].token
         IN /\ token # NoToken
            /\ token \notin DOMAIN allowed
            /\ DOMAIN allowed' = DOMAIN allowed \cup {token}
            /\ allowed'[token] = [hash |-> rpc[r].hash,
                                  contact |-> rpc[r].contact,
                                  expires |-> now + Ttl]
            /\ \A t \in DOMAIN allowed : allowed'[t] = allowed[t]]_vars

\* A RETRIEVE has replied with a token after the clock has moved.
C7_Witness ==
  \E r \in RpcIds :
    /\ rpc[r].kind = "retrieve" /\ rpc[r].status = "ok"
    /\ rpc[r].token \in DOMAIN allowed
    /\ allowed[rpc[r].token].hash = rpc[r].hash
    /\ allowed[rpc[r].token].expires > Ttl

\* C8 as stated: a RETRIEVE for hash H ends with 'Shard not found' if and
\* only if shards.exists(H) is false.  (Refuted by a RETRIEVE for a shard the
\* node does not hold under a key with no contract: the store's error.)
C8_NotFoundIffAbsent ==
  [][\A r \in RpcIds :
       (rpc[r].kind = "retrieve" /\ Replies(r)) =>
         ((rpc'[r].status = "error" /\ rpc'[r].message = "Shard not found")
            <=> ~ShardExists(shards, rpc[r].hash))]_vars

\* C8, amended: a RETRIEVE whose contract lookup fails ends with the store's
\* error whether or not the shard is held; one whose lookup succeeded, and
\* whose shards.exists did not itself fail, ends with 'Shard not found' if
\* and only if shards.exists(H) is false, and replies [token] otherwise.
C8_RetrieveShardNotFound ==
  [][\A r \in RpcIds :
       (rpc[r].kind = "retrieve" /\ Replies(r)) =>
         /\ rpc[r].pc = "get" =>
              rpc'[r].status = "error" /\ rpc'[r].message \in StoreErrors
         /\ (rpc[r].pc = "exists" /\ rpc'[r].message # "Shard store error") =>
              /\ (rpc'[r].status = "error"
                    /\ rpc'[r].message = "Shard not found")
                   <=> ~ShardExists(shards, rpc[r].hash)
              /\ ShardExists(shards, rpc[r].hash) => rpc'[r].status = "ok"]_vars

\* A RETRIEVE under a live contract has ended with 'Shard not found'.
C8_Witness ==
  \E r \in RpcIds :
    /\ rpc[r].kind = "retrieve" /\ rpc[r].pc = "done"
    /\ rpc[r].message = "Shard not found"
    /\ \E k \in DOMAIN contracts : ~ShardExists(shards, k[1])

\* C9: a CLAIM ends with 'Currently rejecting claims' exactly when neither
\* the descriptor's renter_hd_key nor '*' is in node.claims; with an empty
\* node.claims every CLAIM ends so.
C9_ClaimAllowList ==
  [][\A r \in RpcIds :
       (Received(r) /\ rpc'[r].kind = "claim") =>
         LET xpub == rpc'[r].descriptor.renter_hd_key
             admitted == Includes(claims, xpub) \/ Includes(claims, "*")
             rejected == /\ rpc'[r].status = "error"
                         /\ rpc'[r].message = "Currently rejecting claims"
         IN /\ rejected <=> ~admitted
            /\ claims = <<>> => rejected]_vars

\* A CLAIM has been rejected by a list that is not empty, or a CLAIM of a
\* renter in the list sent by somebody else is on its way to the store.
C9_Witness ==
  \E r \in RpcIds :
    /\ rpc[r].kind = "claim"
    /\ \/ /\ rpc[r].message = "Currently rejecting claims"
          /\ claims # <<>>
       \/ /\ rpc[r].pc = "put"
          /\ claims = <<rpc[r].descriptor.renter_hd_key>>
          /\ rpc[r].contact.xpub # rpc[r].descriptor.renter_hd_key

\* C10: a CLAIM that passes the allow-list with a valid and complete
\* contract leaves its first callback with the farmer's side filled in and
\* signed and with nothing persisted and no token drawn; when the write
\* succeeds, the same step persists the contract under
\* '{data_hash}:{renter_hd_key}', draws a token, accepts it for (data_hash,
\* requesting contact) and replies [contract, token]; when the write fails
\* the request ends with the store's error, no token drawn, nothing
\* persisted, no reply.
C10_ClaimOrder ==
  [][\A r \in RpcIds :
       /\ (Received(r) /\ rpc'[r].kind = "claim" /\ rpc'[r].pc = "put") =>
            LET contract == rpc'[r].descriptor
            IN /\ contract.farmer_id = NodeIdentity
               /\ contract.farmer_hd_key = NodeXpub
               /\ contract.farmer_hd_index = NodeIndex
               /\ contract.farmer_signature = Signature(contract, NodeXpub)
               /\ IsValid(contract) /\ IsComplete(contract)
               /\ rpc'[r].hash = contract.data_hash
               /\ UNCHANGED <<contracts, allowed, draws>>
       /\ (rpc[r].kind = "claim" /\ rpc[r].pc = "put" /\ Replies(r)) =>
            LET contract == rpc[r].descriptor
                key == ContractKey(contract.data_hash, contract.renter_hd_key)
                token == rpc'[r].token
            IN IF rpc'[r].status = "ok"
               THEN /\ contracts' = MapSet(contracts, key, contract)
                    /\ draws' = draws + 1
                    /\ token \notin DOMAIN allowed
                    /\ allowed' = MapSet(allowed, token,
                                         [hash |-> contract.data_hash,
                                          contact |-> rpc[r].contact,
                                          expires |-> now + Ttl])
                    /\ rpc'[r].descriptor = contract
               ELSE /\ rpc'[r].status = "error"
                    /\ rpc'[r].message = "Contract store error"
                    /\ rpc'[r].token = NoToken
                    /\ UNCHANGED <<contracts, allowed, draws>>]_vars

\* A CLAIM sent by a contact that is not the renter has been answered: the
\* contract is stored under the renter's key, the token is the sender's.
C10_Witness ==
  \E r \in RpcIds :
    /\ rpc[r].kind = "claim" /\ rpc[r].status = "ok"
    /\ rpc[r].contact.xpub # rpc[r].descriptor.renter_hd_key
    /\ LET c == rpc[r].descriptor
           key == ContractKey(c.data_hash, c.renter_hd_key)
       IN /\ key \in DOMAIN contracts /\ contracts[key] = c
          /\ rpc[r].token \in DOMAIN allowed
          /\ allowed[rpc[r].token].contact = rpc[r].contact

(***************************************************************************)
(* RENEW.                                                                  *)
(***************************************************************************)
\* The descriptor and the contact of the RENEW that moves in this step.
Renewal(r) == IF Received(r) THEN rpc'[r].descriptor ELSE rpc[r].descriptor
RenewKey(r) ==
  IF Received(r)
  THEN ContractKey(rpc'[r].descriptor.data_hash, rpc'[r].contact.xpub)
  ELSE ContractKey(rpc[r].descriptor.data_hash, rpc[r].contact.xpub)

\* The fields of diff(local, renewal) a renewal may not change.
Forbidden(local, renewal) ==
  SelectSeq(Diff(local, renewal), LAMBDA f : f \notin RenewAllowed)

\* C11 as stated: whenever diff(local, renewal) has a field outside the
\* allowed set, the RENEW ends with 'Rejecting renewal of X', X the first
\* such field, and the stored contract is unchanged.  (Refuted by a renewal
\* that names another farmer and lacks a signature: 'Descriptor is invalid
\* or incomplete' comes first.)
C11_ForbiddenAlwaysNamed ==
  [][\A r \in RpcIds :
       (rpc'[r].kind = "renew" /\ Replies(r)
          /\ RenewKey(r) \in DOMAIN contracts
          /\ Forbidden(contracts[RenewKey(r)], Renewal(r)) # <<>>) =>
         /\ rpc'[r].status = "error"
         /\ rpc'[r].message = "Rejecting renewal of "
              \o Head(Forbidden(contracts[RenewKey(r)], Renewal(r)))
         /\ contracts' = contracts]_vars

\* C11, amended: a RENEW whose descriptor is valid and complete and whose
\* local contract has been read ends with 'Rejecting renewal of X' exactly
\* when diff(local, renewal) has a field outside the allowed set, X being
\* the first such field in diff order; the stored contract is then
\* unchanged.
C11_RenewForbiddenField ==
  [][\A r \in RpcIds :
       (rpc[r].kind = "renew" /\ rpc[r].pc = "get" /\ rpc'[r].pc # "get"
          /\ rpc'[r].message \notin StoreErrors) =>
         LET offending == Forbidden(contracts[RenewKey(r)], Renewal(r))
         IN /\ IsValid(Renewal(r)) /\ IsComplete(Renewal(r))
            /\ RenewKey(r) \in DOMAIN contracts
            /\ IF offending # <<>>
               THEN /\ rpc'[r].status = "error"
                    /\ rpc'[r].message = "Rejecting renewal of " \o Head(offending)
                    /\ contracts' = contracts
               ELSE rpc'[r].pc = "put"]_vars

\* A renewal naming another farmer (farmer_hd_key, farmer_id and
\* farmer_signature all differ) has been rejected for farmer_hd_key.
C11_Witness ==
  \E r \in RpcIds :
    /\ rpc[r].kind = "renew" /\ rpc[r].pc = "done"
    /\ rpc[r].message = "Rejecting renewal of farmer_hd_key"

\* C12: a RENEW is rejected with 'Descriptor is invalid or incomplete' in
\* its first callback, before contracts.get, exactly when its descriptor is
\* not both valid and complete; one that finds its local contract under
\* '{data_hash}:{contact xpub}' with only allowed differences is signed by
\* the farmer and, when the write succeeds, stored under that key and
\* replied as stored; when the write fails the request ends with the store's
\* error and the store is unchanged.
C12_RenewSignedAndPersisted ==
  [][\A r \in RpcIds :
       /\ (Received(r) /\ rpc'[r].kind = "renew") =>
            /\ ~(IsValid(Renewal(r)) /\ IsComplete(Renewal(r)))
                 <=> /\ rpc'[r].pc = "done" /\ rpc'[r].status = "error"
                     /\ rpc'[r].message = "Descriptor is invalid or incomplete"
            /\ (IsValid(Renewal(r)) /\ IsComplete(Renewal(r)))
                 => rpc'[r].pc = "get"
            /\ contracts' = contracts
       /\ (rpc[r].kind = "renew" /\ rpc[r].pc = "get" /\ rpc'[r].pc = "put") =>
            /\ rpc'[r].descriptor = SignFarmer(rpc[r].descriptor, NodeXpub)
            /\ rpc'[r].descriptor.farmer_signature
                 = Signature(rpc'[r].descriptor, NodeXpub)
            /\ contracts' = contracts
       /\ (rpc[r].kind = "renew" /\ rpc[r].pc = "put" /\ Replies(r)) =>
            IF rpc'[r].status = "ok"
            THEN /\ contracts' = MapSet(contracts, RenewKey(r), rpc[r].descriptor)
                 /\ rpc'[r].descriptor = contracts'[RenewKey(r)]
            ELSE /\ rpc'[r].status = "error"
                 /\ rpc'[r].message = "Contract store error"
                 /\ contracts' = contracts]_vars

\* A renewal that moves store_end and still carries the farmer's old
\* signature has been answered: the stored contract is the reply, with the
\* new store_end under a new farmer signature.
C12_Witness ==
  \E r \in RpcIds :
    /\ rpc[r].kind = "renew" /\ rpc[r].status = "ok"
    /\ LookupKey(r) \in DOMAIN contracts
    /\ contracts[LookupKey(r)] = rpc[r].descriptor
    /\ rpc[r].descriptor.store_end = 0
    /\ rpc[r].descriptor.farmer_signature = Signature(rpc[r].descriptor, NodeXpub)


(***************************************************************************)
(* OFFER and the OfferStream                                               *)
(***************************************************************************)
\* Request i is received in this step.
OfferArrives(i) == offerRpc[i].pc = "idle" /\ offerRpc'[i].pc # "idle"
\* Request i is answered with this error.
OfferFailed(o, message) == o.pc = "done" /\ o.status = "error" /\ o.message = message
\* Request i is answered with a reply.
OfferReplied(o) == o.pc = "done" /\ o.status = "ok"

\* C13: an OFFER whose descriptor is not both valid and complete is
\* rejected with 'Invalid shard descriptor', whether or not a stream is
\* registered for its data_hash; an OFFER whose descriptor is valid and
\* complete and whose data_hash has no stream in node.offers is rejected
\* with 'Offers for descriptor are closed'; in both cases no stream changes.
C13_OfferRejections ==
  [][\A i \in OfferIds :
       OfferArrives(i) =>
         LET d == offerRpc'[i].descriptor IN
         /\ ~(IsValid(d) /\ IsComplete(d)) =>
              OfferFailed(offerRpc'[i], "Invalid shard descriptor") /\ offers' = offers
         /\ (IsValid(d) /\ IsComplete(d) /\ ~OffersHas(d.data_hash)) =>
              OfferFailed(offerRpc'[i], "Offers for descriptor are closed") /\ offers' = offers]_vars

\* Both rejections have been given, the first one for a descriptor whose
\* data_hash has no stream registered either.
C13_Witness ==
  \E i, j \in OfferIds :
    /\ OfferFailed(offerRpc[i], "Invalid shard descriptor")
    /\ ~OffersHas(offerRpc[i].descriptor.data_hash)
    /\ OfferFailed(offerRpc[j], "Offers for descriptor are closed")
    /\ IsValid(offerRpc[j].descriptor) /\ IsComplete(offerRpc[j].descriptor)


\* Offer i is exposed to the consumer in this step.
Exposed(i) == offerRpc[i].pc # "exposed" /\ offerRpc'[i].pc = "exposed"
\* The stream for h admits an offer of this contact and contract.
Admissible(h, contact, contract) ==
  /\ contract.data_hash = h
  /\ FarmerSideComplete(contract)
  /\ contact.identity \notin offers[h].farmerBlacklist
  /\ offers[h].resolved < offers[h].maxOffers

\* C14: an offer is exposed to the consumer only by the stream of its own
\* data_hash, only if its farmer side is valid and complete, its farmer is
\* not on the stream's blacklist and fewer than maxOffers offers of the
\* stream are resolved; an OFFER that reaches a registered stream and breaks
\* one of these rules is answered with an error at once and is not queued.
C14_Admission ==
  [][\A i \in OfferIds :
       /\ Exposed(i) =>
            \E h \in Hashes :
              /\ offers'[h].held = i
              /\ Admissible(h, offerRpc[i].contact, offerRpc[i].descriptor)
       /\ OfferArrives(i) =>
            LET d == offerRpc'[i].descriptor
                h == d.data_hash
            IN (/\ IsValid(d) /\ IsComplete(d) /\ OffersHas(h)
                /\ ~Admissible(h, offerRpc'[i].contact, d))
               => /\ offerRpc'[i].pc = "done" /\ offerRpc'[i].status = "error"
                  /\ offers' = offers]_vars

\* A stream with a blacklist has exposed one farmer's offer and has refused
\* the offer of the farmer on its blacklist.
C14_Witness ==
  \E i, j \in OfferIds, h \in Hashes :
    /\ offerRpc[i].pc = "exposed" /\ offers[h].held = i
    /\ offers[h].farmerBlacklist # {}
    /\ OfferFailed(offerRpc[j], "Offer rejected")
    /\ offerRpc[j].descriptor.data_hash = h
    /\ offerRpc[j].contact.identity \in offers[h].farmerBlacklist
    /\ FarmerSideComplete(offerRpc[j].descriptor)


\* Offer i is accepted in this step: its farmer is sent a contract.
Accepted(i) == ~OfferReplied(offerRpc[i]) /\ OfferReplied(offerRpc'[i])

\* C15: no stream accepts more than maxOffers offers.  On a stream with
\* maxOffers = 1 an offer is exposed only while no offer of the stream is
\* held or resolved; when the consumer accepts the offer it holds, that
\* farmer's reply is the finalized contract, and every other farmer's
\* offer, still queued and never exposed, is rejected with an error in the
\* same step, after which the stream has ended.
C15_BoundedAcceptance ==
  [][\A h \in Hashes :
       /\ offers'[h].accepted <= offers'[h].maxOffers
       /\ offers[h].maxOffers = 1 =>
            \A i \in OfferIds :
              /\ (Exposed(i) /\ offers'[h].held = i) =>
                   offers[h].held = NoOffer /\ offers[h].resolved = 0
              /\ (Accepted(i) /\ offers[h].held = i) =>
                   /\ offerRpc'[i].result = offerRpc[i].descriptor
                   /\ offers'[h].ended /\ offers'[h].accepted = 1
                   /\ \A j \in OfferIds \ {i} :
                        (offerRpc[j].pc \in {"queued", "exposed"}
                           /\ offerRpc[j].descriptor.data_hash = h) =>
                          /\ offerRpc[j].pc = "queued"
                          /\ offerRpc'[j].pc = "done" /\ offerRpc'[j].status = "error"]_vars

\* Two farmers offered for the same shard on a stream with maxOffers = 1:
\* one has the finalized contract as its reply, the other an error.
C15_Witness ==
  \E i, j \in OfferIds, h \in Hashes :
    /\ offers[h].maxOffers = 1 /\ offers[h].accepted = 1 /\ offers[h].ended
    /\ OfferReplied(offerRpc[i]) /\ offerRpc[i].result = offerRpc[i].descriptor
    /\ offerRpc[i].descriptor.data_hash = h
    /\ OfferFailed(offerRpc[j], "Offer stream ended")
    /\ offerRpc[j].descriptor.data_hash = h
    /\ offerRpc[i].contact # offerRpc[j].contact


\* The consumer resolves the offer i it holds of the stream for h in this step.
Resolves(h, i) ==
  offers[h].held = i /\ i # NoOffer /\ offers'[h].resolved = offers[h].resolved + 1

\* C16: an OFFER that a stream admits is put at the end of its queue and
\* the offer exposed is the one at the head of the queue, so offers are
\* exposed in the order they were queued; when the consumer resolves an
\* offer, the error or the finalized contract it passes is the answer to the
\* farmer of that offer, and no other farmer is sent a contract or that
\* error in the step.
C16_FifoAndForwarding ==
  [][\A h \in Hashes, i \in OfferIds :
       /\ (OfferArrives(i) /\ offerRpc'[i].pc = "queued"
             /\ offerRpc'[i].descriptor.data_hash = h) =>
            offers'[h].queue = Append(offers[h].queue, i)
       /\ (Exposed(i) /\ offers'[h].held = i) =>
            /\ offers[h].queue # <<>> /\ i = Head(offers[h].queue)
            /\ offers'[h].queue = Tail(offers[h].queue)
       /\ Resolves(h, i) =>
            /\ \/ OfferReplied(offerRpc'[i]) /\ offerRpc'[i].result = offerRpc[i].descriptor
               \/ OfferFailed(offerRpc'[i], "Offer declined")
            /\ offerRpc'[i].contact = offerRpc[i].contact
            /\ \A j \in OfferIds \ {i} :
                 \/ offerRpc'[j] = offerRpc[j]
                 \/ OfferFailed(offerRpc'[j], "Offer stream ended")]_vars

\* Two offers were queued on one stream: the first is resolved and its
\* farmer has the finalized contract, the second is exposed after it.
C16_Witness ==
  \E i, j \in OfferIds, h \in Hashes :
    /\ offers[h].resolved = 1 /\ offers[h].held = j /\ offerRpc[j].pc = "exposed"
    /\ OfferReplied(offerRpc[i]) /\ offerRpc[i].result = offerRpc[i].descriptor
    /\ offerRpc[i].descriptor.data_hash = h
    /\ offerRpc[i].contact # offerRpc[j].contact


\* The stream for h ends in this step.
Ends(h) == ~offers[h].ended /\ offers'[h].ended

AuditSteps(r) == auditRpc'[r] # auditRpc[r] /\ auditRpc'[r].pc # "idle"
\* The entry the handler of request r is at gets its result in this step.
EntryDone(r) ==
  auditRpc[r].pc \in {"get", "open", "pipe"}
    /\ Len(auditRpc'[r].proofs) = Len(auditRpc[r].proofs) + 1
\* The request is answered with a reply.
AuditReplied(a) == a.pc = "done" /\ a.status = "ok"
\* The request is answered with an RPC error.
AuditFailed(a) == a.pc = "done" /\ a.status = "error"

\* C18: every AUDIT for a list of N entries is answered: no step leaves
\* the request without an answer to come; the reply has N items, the i-th
\* with the hash of the i-th entry; the result of an entry is null when its
\* contract is not read, when its shard is not opened or when its proof
\* fails, and the proof result otherwise.
C18_AuditTotal ==
  [][\A r \in RpcIds :
       (AuditSteps(r) /\ auditRpc'[r].params.list) =>
         LET a == auditRpc[r]
             b == auditRpc'[r]
         IN /\ b.pc \in {"get", "open", "pipe", "done"}
            /\ b.pc = "done" =>
                 /\ AuditReplied(b)
                 /\ Len(b.proofs) = Len(b.params.entries)
                 /\ \A k \in 1..Len(b.proofs) : b.proofs[k].hash = b.params.entries[k].hash
            /\ EntryDone(r) =>
                 LET key == ContractKey(Entry(a).hash, a.contact.xpub)
                     failed == \/ a.pc \in {"get", "open"}
                               \/ key \notin DOMAIN contracts
                               \/ ~ShardExists(shards, Entry(a).hash)
                               \/ ProofFails(Entry(a).challenge)
                 IN b.proofs[Len(b.proofs)].proof =
                      IF failed THEN NoProof
                      ELSE GetProofResult(Entry(a).hash, Entry(a).challenge)]_vars

\* C19 as stated: whatever its params, an AUDIT request is answered with a
\* reply list and never with an RPC error.
C19_NeverFails ==
  [][\A r \in RpcIds :
       AuditSteps(r) => ~AuditFailed(auditRpc'[r])]_vars

\* C19: an AUDIT request whose params is a list is never answered with an
\* RPC error: what it is answered with is a reply list with one item for
\* each entry, the entries that failed having proof null.
C19_ListNeverFails ==
  [][\A r \in RpcIds :
       (AuditSteps(r) /\ auditRpc'[r].params.list) =>
         /\ ~AuditFailed(auditRpc'[r])
         /\ auditRpc'[r].pc = "done" =>
              /\ AuditReplied(auditRpc'[r])
              /\ Len(auditRpc'[r].proofs) = Len(auditRpc'[r].params.entries)]_vars

\* A batch with an entry that has no contract was answered with a reply
\* list that has proof null for it.
C19_Witness ==
  \E r \in RpcIds :
    /\ AuditReplied(auditRpc[r])
    /\ \E k \in 1..Len(auditRpc[r].proofs) :
         /\ auditRpc[r].proofs[k].proof = NoProof
         /\ ContractKey(auditRpc[r].params.entries[k].hash, auditRpc[r].contact.xpub)
              \notin DOMAIN contracts

\* C20: an AUDIT request whose params is not a list is answered, in the
\* step that receives it, with the error 'Invalid audit batch supplied':
\* no contracts.get and no createReadStream is ever issued for it, and no
\* reply is sent.
C20_InvalidBatch ==
  [][\A r \in RpcIds :
       (AuditSteps(r) /\ ~auditRpc'[r].params.list) =>
         /\ auditRpc[r].pc = "idle"
         /\ AuditFailed(auditRpc'[r])
         /\ auditRpc'[r].message = "Invalid audit batch supplied"
         /\ auditRpc'[r].proofs = <<>>]_vars

\* Params that are not a list have been refused.
C20_Witness ==
  \E r \in RpcIds :
    /\ ~auditRpc[r].params.list
    /\ AuditFailed(auditRpc[r])
    /\ auditRpc[r].message = "Invalid audit batch supplied"


\* C21: every AUDIT request over a list that is under way is eventually
\* answered with its reply, whatever the lookups and the streams of its
\* entries end in.
C21_AuditEventuallyReplies ==
  \A r \in RpcIds :
    (auditRpc[r].pc \in {"get", "open", "pipe"}) ~> AuditReplied(auditRpc[r])


(***************************************************************************)
(* Upload and download: effects and order of the checks                    *)
(***************************************************************************)
\* Request q, an upload, revokes a token or emits shardUploaded in this step.
UploadTakesEffect(q) ==
  /\ http[q].kind = "upload" /\ http'[q] # http[q]
  /\ \/ allowed' # allowed
     \/ http'[q].event = "shardUploaded" /\ http[q].event # "shardUploaded"

\* C22: an upload request revokes its token and emits shardUploaded only
\* when it is answered 200 and the shard is in the store; a request answered
\* 400 does neither, and the status of a response never changes.
C22_UploadEffectsOnlyOn200 ==
  [][\A q \in HttpIds :
       /\ UploadTakesEffect(q) =>
            /\ http[q].statusCode = 0 /\ http'[q].statusCode = 200
            /\ ShardExists(shards', http[q].hash)
       /\ (http[q].kind = "upload" /\ http[q].statusCode # 0 /\ http'[q].kind # "idle") =>
            http'[q].statusCode = http[q].statusCode]_vars


\* The byte counter of upload request q has exceeded the declared size.
Overflowed(q) ==
  /\ http[q].kind = "upload" /\ http[q].pc = "receiving"
  /\ ReceivedBytes(http[q]) > http[q].shardSize

\* C29: once the byte counter of an upload request has exceeded the
\* contract's size, no later event of that request (a further chunk, the
\* end of the body) changes the shard store, the token table or the
\* response.
C29_AbortOnOverflow ==
  [][\A q \in HttpIds :
       (Overflowed(q) /\ http'[q] # http[q]) =>
         /\ shards' = shards
         /\ allowed' = allowed
         /\ http'[q].statusCode = http[q].statusCode
         /\ http'[q].message = http[q].message
         /\ http'[q].event = http[q].event]_vars


\* Request q is received in this step.
HttpArrives(q) == http[q].kind = "idle" /\ http'[q].kind # "idle"

\* C23: an upload whose token fails authorize(token, hash) is answered 401
\* in the step that receives it, without a contract lookup; the lookup of
\* an authorized upload either finds a contract or ends the request with
\* 404; in both cases no write stream is opened and the shard store and the
\* token table are as before.
C23_UploadCheckOrder ==
  [][\A q \in HttpIds :
       /\ (HttpArrives(q) /\ http'[q].kind = "upload") =>
            /\ shards' = shards /\ allowed' = allowed
            /\ IF AuthorizeError(http'[q].token, http'[q].hash) # ""
               THEN http'[q].statusCode = 401 /\ http'[q].pc = "done"
               ELSE http'[q].statusCode = 0 /\ http'[q].pc = "findOne"
       /\ (http[q].kind = "upload" /\ http[q].pc = "findOne" /\ http'[q] # http[q]) =>
            /\ shards' = shards /\ allowed' = allowed
            /\ \/ http'[q].statusCode = 404 /\ http'[q].pc = "done"
               \/ /\ http'[q].statusCode = 0 /\ http'[q].pc = "createWriteStream"
                  /\ http'[q].shardSize > 0]_vars

\* One upload was refused with 401, another had a live token and was
\* answered 404 for want of a contract; no shard has been created.
C23_Witness ==
  \E p, q \in HttpIds :
    /\ http[p].kind = "upload" /\ http[p].statusCode = 401
    /\ http[q].kind = "upload" /\ http[q].statusCode = 404 /\ http[q].live
    /\ http[q].message = "Not found"
    /\ \A h \in Hashes : ~ShardExists(shards, h)


\* C24: a download whose token fails authorize is answered 401 and one whose
\* read stream cannot be opened is answered 404, the token table staying as
\* it is; a read stream that was opened either ends, and then
\* shardDownloaded is emitted and the token is revoked, or fails, and then
\* the response is ended, nothing is emitted and the token table stays as it
\* is.
C24_DownloadOutcomes ==
  [][\A q \in HttpIds :
       /\ (HttpArrives(q) /\ http'[q].kind = "download") =>
            /\ allowed' = allowed
            /\ IF AuthorizeError(http'[q].token, http'[q].hash) # ""
               THEN http'[q].statusCode = 401 /\ http'[q].pc = "done"
               ELSE http'[q].statusCode = 0 /\ http'[q].pc = "createReadStream"
       /\ (http[q].kind = "download" /\ http[q].pc = "createReadStream"
             /\ http'[q] # http[q]) =>
            /\ allowed' = allowed
            /\ \/ http'[q].statusCode = 404 /\ http'[q].pc = "done" /\ http'[q].event = ""
               \/ http'[q].statusCode = 0 /\ http'[q].pc = "piping"
       /\ (http[q].kind = "download" /\ http[q].pc = "piping" /\ http'[q] # http[q]) =>
            /\ http'[q].pc = "done"
            /\ \/ /\ http'[q].event = "shardDownloaded"
                  /\ allowed' = ServerReject(allowed, http[q].token)
               \/ /\ http'[q].event = ""
                  /\ allowed' = allowed]_vars

\* A download's read stream failed while the shard was being written: its
\* response is ended, nothing is emitted and its token is still in the table.
C24_Witness ==
  \E q \in HttpIds :
    /\ http[q].kind = "download" /\ http[q].pc = "done" /\ http[q].live
    /\ http[q].statusCode = 200 /\ http[q].event = ""
    /\ http[q].token \in DOMAIN allowed
    /\ completed = {}


\* C30: the token sweep drops exactly the expired records: the table a sweep
\* at the current time leaves holds no record that authorize rejects as
\* expired at that time, and holds every record of the table that authorize
\* does not reject as expired.
C30_SweepDropsExpired ==
  LET swept == ReapedTokens(allowed, now)
  IN /\ \A t \in DOMAIN swept : swept[t].expires > now
     /\ \A t \in DOMAIN allowed :
          allowed[t].expires > now => (t \in DOMAIN swept /\ swept[t] = allowed[t])


(***************************************************************************)
(* MIRROR                                                                  *)
(***************************************************************************)
\* Request r's MIRROR handler takes a step.
MirrorSteps(r) ==
  rpc[r].kind = "mirror" /\ rpc'[r] # rpc[r] /\ rpc'[r].kind # "idle"

\* C25: a MIRROR request gets exactly one of a reply and an error, no step
\* leaving it without an answer to come: it fails when the contract under
\* '{hash}:{originator xpub}' is not read, when the shard stream is not
\* opened, when the upload stream fails, and when the destination's answer is
\* not 200, the message then being the answer's body; it is replied to with
\* the answer's body when the destination answers 200.
C25_MirrorOutcome ==
  [][\A r \in RpcIds :
       MirrorSteps(r) =>
         LET a == rpc[r]
             b == rpc'[r]
             failed == b.pc = "done" /\ b.status = "error"
         IN /\ a.pc = "get" =>
                 /\ failed \/ (b.pc = "open" /\ b.status = "")
                 /\ ContractKey(a.hash, a.contact.xpub) \notin DOMAIN contracts => failed
            /\ a.pc = "open" =>
                 /\ failed \/ (b.pc = "pipe" /\ b.status = "")
                 /\ ~ShardExists(shards, a.hash) => failed
            /\ a.pc = "pipe" => failed \/ (b.pc = "response" /\ b.status = "")
            /\ a.pc = "response" =>
                 \/ b.pc = "response" /\ b.status = "" /\ b.statusCode = a.statusCode
                 \/ a.statusCode = 200 /\ b.pc = "done" /\ b.status = "ok"
                      /\ b.result = a.result
                 \/ a.statusCode # 200 /\ failed /\ b.message = a.result
            /\ a.pc \notin {"get", "open", "pipe", "response"} => FALSE]_vars


(***************************************************************************)
(* THE CONTRACT STORE                                                      *)
(***************************************************************************)
\* The stored value is a contract descriptor: an object with the fields of
\* one.
IsDescriptor(v) == DOMAIN v = DOMAIN NoContract

\* C26: every value held in the contract store is a contract descriptor
\* that is valid and complete.
C26_StoredValidComplete ==
  \A k \in DOMAIN contracts :
    /\ IsDescriptor(contracts[k])
    /\ IsValid(contracts[k]) /\ IsComplete(contracts[k])

\* The key of the counterparty named in descriptor v: the renter's for a
\* contract this node holds as farmer, the farmer's otherwise.
Counterparty(v) ==
  IF v.farmer_hd_key = NodeXpub THEN v.renter_hd_key ELSE v.farmer_hd_key

\* C27: every entry of the contract store is kept under the key made of
\* the data_hash of its value and of the key of the counterparty its value
\* names, so no two entries are for the same shard and counterparty.
C27_KeyedByCounterparty ==
  \A k \in DOMAIN contracts :
    /\ IsDescriptor(contracts[k])
    /\ k = ContractKey(contracts[k].data_hash, Counterparty(contracts[k]))


\* The entry of the contract store under key k, if any.
Held(store, k) == IF k \in DOMAIN store THEN <<store[k]>> ELSE <<>>

\* Request r's RENEW handler has read the local contract and its write of
\* the renewal has not been done.
BetweenReadAndWrite(r) == rpc[r].kind = "renew" /\ rpc[r].pc = "put"

\* C28: between a RENEW handler's read of the local contract under key K
\* and its write of the renewal under K, no step of another handler writes
\* or deletes the entry under K.
C28_RenewAtomic ==
  [][\A r \in OverlapIds :
       (BetweenReadAndWrite(r) /\ rpc'[r] = rpc[r]) =>
         LET K == ContractKey(rpc[r].hash, rpc[r].contact.xpub)
         IN Held(contracts', K) = Held(contracts, K)]_vars


(***************************************************************************)
(* AUDIT: disk reads                                                       *)
(***************************************************************************)
\* The AUDIT requests of peer that have a shard read stream open.
Reading(peer) ==
  {r \in OverlapIds : auditRpc[r].pc = "pipe" /\ auditRpc[r].contact = peer}

\* C31: at any time at most one shard read stream is open for the AUDIT
\* requests of one peer, and within a batch the contract lookup of an entry
\* starts only in the step in which the entry before it gets its result.
C31_OneReadPerPeer ==
  [][/\ \A peer \in Contacts : Cardinality(Reading(peer)) <= 1
     /\ \A r \in OverlapIds :
          (auditRpc[r].pc # "idle" /\ auditRpc'[r] # auditRpc[r]
             /\ auditRpc'[r].pc = "get") =>
            Len(auditRpc'[r].proofs) = Len(auditRpc[r].proofs) + 1]_vars


(***************************************************************************)
(* THE REAPER                                                              *)
(***************************************************************************)
\* The reaper unlinks a shard, or deletes a contract, in this step.
ReaperUnlinks == reaper.pc = "unlink" /\ shards' # shards
ReaperDeletes == reaper.pc = "del" /\ contracts' # contracts

\* C32: the reaper unlinks a shard and deletes its contract only if the
\* contract's store_end had passed when the scan took its time; a contract
\* whose store_end is later than now is not reaped.
C32_ReapsOnlyExpired ==
  [][(ReaperUnlinks \/ ReaperDeletes) =>
       /\ reaper.value.store_end < reaper.time
       /\ ~(reaper.value.store_end > now)]_vars

\* Contract c is one the scan under way reaps.
ReapedInScan(c) == c.store_end < reaper.time + Grace

\* C37: the reaper does not unlink the shard for a hash while the contract
\* store holds, under another key, a contract for that hash which the same
\* scan does not reap.
C37_ReferencedShardSurvives ==
  [][ReaperUnlinks =>
       \A k \in DOMAIN contracts :
         (k # reaper.key /\ contracts[k].data_hash = reaper.value.data_hash) =>
           ReapedInScan(contracts[k])]_vars


(***************************************************************************)
(* STORED SHARDS                                                           *)
(***************************************************************************)
\* Upload request q is answered with statusCode in this step.
UploadAnswered(q, statusCode) ==
  /\ http'[q].kind = "upload" /\ http'[q].statusCode = statusCode
  /\ http[q].statusCode = 0

\* C33: the shard h1 stored by a completed upload stays stored: a later
\* upload for h1 that is refused for its token changes nothing in the shard
\* store, and one that is answered 400 for its bytes or its size leaves h1
\* in the store with its bytes.
C33_StoredShardSurvives ==
  [][\A q \in HttpIds :
       /\ UploadAnswered(q, 401) => shards' = shards
       /\ (UploadAnswered(q, 400) /\ http'[q].hash = "h1") =>
            shards'["h1"] = [present |-> TRUE, data |-> ShardBytes["h1"]]]_vars


(***************************************************************************)
(* TOKENS AND CONTRACTS                                                    *)
(***************************************************************************)
\* C35: CONSIGN and RETRIEVE accept a token for hash H only while the
\* contract stored under '{H}:{requester xpub}' has not expired, that is
\* while now <= store_end.
C35_NoTokenForExpiredContract ==
  [][\A r \in RpcIds :
       (rpc[r].kind \in {"consign", "retrieve"} /\ allowed' # allowed) =>
         LET key == ContractKey(rpc[r].hash, rpc[r].contact.xpub)
         IN key \in DOMAIN contracts /\ now <= contracts[key].store_end]_vars


\* Request q arrives with the token that request r was answered with.
PresentsTokenOf(q, r) ==
  /\ rpc[r].pc = "done" /\ rpc[r].status = "ok" /\ rpc[r].token # NoToken
  /\ HttpArrives(q) /\ http'[q].token = rpc[r].token

\* C34: a token minted by RETRIEVE does not authorize an upload, and a
\* token minted by CONSIGN or CLAIM does not authorize a download: such a
\* request is answered 401.
C34_TokenDirection ==
  [][\A r \in RpcIds, q \in HttpIds :
       PresentsTokenOf(q, r) =>
         /\ (rpc[r].kind = "retrieve" /\ http'[q].kind = "upload") =>
              http'[q].statusCode = 401
         /\ (rpc[r].kind \in {"consign", "claim"} /\ http'[q].kind = "download") =>
              http'[q].statusCode = 401]_vars


(***************************************************************************)
(* THE OFFER REGISTRY                                                      *)
(***************************************************************************)
\* C36: the stream most recently created for a hash is registered under it
\* for as long as it has not ended, also when an earlier stream of the hash
\* ends after it was created; no entry is registered for a hash whose
\* publish failed.
C36_RegistryHoldsLatest ==
  \A h \in Hashes :
    /\ ~offers[h].ended => offers[h].registered
    /\ offers[h].failed => ~offers[h].registered


(***************************************************************************)
(* CAPACITY                                                                *)
(***************************************************************************)
\* publishCapacityAnnouncement is called in this step.
Announces == announcement.pc = "size" /\ announcement'.pc = "publish"

\* C38: once publishCapacityAnnouncement was called with data.available <=
\* 0 the allow-list is empty, and stays so when a later announcement has
\* available > 0; a CLAIM that arrives then is rejected with 'Currently
\* rejecting claims'; an announcement with available > 0 leaves the
\* allow-list as it is.
C38_ClaimsClosedForGood ==
  [][/\ announcement'.closed => claims' = <<>>
     /\ (Announces /\ announcement'.available > 0) => claims' = claims
     /\ \A r \in RpcIds :
          (announcement.closed /\ rpc[r].kind = "idle" /\ rpc'[r].kind = "claim") =>
            /\ rpc'[r].pc = "done" /\ rpc'[r].status = "error"
            /\ rpc'[r].message = "Currently rejecting claims"]_vars

\* After an announcement without capacity, one with capacity was made, and
\* a CLAIM that arrived since was rejected.
C38_Witness ==
  /\ announcement.closed /\ announcement.pc = "publish"
  /\ announcement.available > 0
  /\ claims = <<>>
  /\ \E r \in RpcIds :
       /\ rpc[r].kind = "claim" /\ rpc[r].pc = "done"
       /\ rpc[r].message = "Currently rejecting claims"


(***************************************************************************)
(* CLAIM AND THE LOOKUPS                                                   *)
(***************************************************************************)
\* C39: when CLAIM has accepted descriptor D from contact R, the lookup
\* that CONSIGN, RETRIEVE, MIRROR and AUDIT make for R and D.data_hash,
\* under '{D.data_hash}:{R's xpub}', finds the contract that CLAIM
\* persisted.
C39_ClaimedIsFound ==
  \A r \in RpcIds :
    (rpc[r].kind = "claim" /\ rpc[r].pc = "done" /\ rpc[r].status = "ok") =>
      LET K == ContractKey(rpc[r].hash, rpc[r].contact.xpub)
      IN /\ GetError(K, FALSE) = ""
         /\ contracts[K] = rpc[r].descriptor

(***************************************************************************)
(* PROBE                                                                   *)
(***************************************************************************)
\* Rules.probe: node.ping(request.contact, ...) is sent.
ProbeStart(r, contact) ==
  /\ FirstFreeRpc(r)
  /\ rpc' = [rpc EXCEPT ![r] = [IdleRpc EXCEPT !.kind = "probe", !.pc = "ping",
                                                !.contact = contact]]
  /\ UNCHANGED <<now, allowed, draws, shards, contracts, claims, httpVars,
       offerVars, auditRpc>>

\* Rules.probe: the callback of node.ping.
ProbePinged(r, err) ==
  /\ rpc[r].kind = "probe" /\ rpc[r].pc = "ping"
  /\ rpc' = [rpc EXCEPT ![r] = IF err
                               THEN Fail(@, "Failed to reach probe originator")
                               ELSE Send(@)]
  /\ UNCHANGED <<now, allowed, draws, shards, contracts, claims, httpVars,
       offerVars, auditRpc>>

(***************************************************************************)
(* The eight handlers of the node together, one request served at a time:  *)
(* a request arrives when no other is in flight, and the clock and the     *)
(* sweep of the token table run between the callbacks.                     *)
(***************************************************************************)
\* The kinds of request the rpc slots serve.
RpcKinds == {"consign", "retrieve", "claim", "renew", "mirror", "probe"}

\* No request is being served.
Quiet ==
  /\ \A r \in RpcIds : rpc[r].kind = "idle" /\ auditRpc[r].pc = "idle"
  /\ \A i \in OfferIds : offerRpc[i].pc = "idle"

NextHandlers ==
  \/ \E r \in RpcIds, h \in Hashes : Quiet /\ ConsignStart(r, Renter, h)
  \/ \E r \in RpcIds, e \in BOOLEAN : ConsignGot(r, e)
  \/ \E r \in RpcIds, h \in Hashes : Quiet /\ RetrieveStart(r, Renter, h)
  \/ \E r \in RpcIds, e \in BOOLEAN : RetrieveGot(r, e)
  \/ \E r \in RpcIds, e \in BOOLEAN : RetrieveExists(r, e)
  \/ \E r \in RpcIds, d \in Offers : Quiet /\ ClaimStart(r, Renter, d)
  \/ \E r \in RpcIds, e \in BOOLEAN : ClaimPut(r, e)
  \/ \E r \in RpcIds, d \in {x \in Renewals : IsComplete(x)} :
       Quiet /\ RenewStart(r, Renter, d)
  \/ \E r \in RpcIds, e \in BOOLEAN : RenewGot(r, e)
  \/ \E r \in RpcIds, e \in BOOLEAN : RenewPut(r, e)
  \/ \E r \in RpcIds, h \in Hashes : Quiet /\ MirrorStart(r, Renter, h)
  \/ \E r \in RpcIds, e \in BOOLEAN : MirrorGot(r, e)
  \/ \E r \in RpcIds, e \in BOOLEAN : MirrorOpened(r, e)
  \/ \E r \in RpcIds : MirrorUploadError(r)
  \/ \E r \in RpcIds : MirrorShardStreamError(r)
  \/ \E r \in RpcIds, c \in UploadAnswers : MirrorResponse(r, c)
  \/ \E r \in RpcIds, d \in AnswerBodies : MirrorResponseData(r, d)
  \/ \E r \in RpcIds : MirrorResponseEnd(r)
  \/ \E r \in RpcIds : MirrorTimeout(r)
  \/ \E r \in RpcIds, c \in Contacts : Quiet /\ ProbeStart(r, c)
  \/ \E r \in RpcIds, e \in BOOLEAN : ProbePinged(r, e)
  \/ \E r \in RpcIds : RpcClose(r)
  \/ \E r \in RpcIds, p \in {x \in AuditParams : Len(x.entries) <= 1} :
       Quiet /\ AuditStart(r, Renter, p)
  \/ \E r \in RpcIds, e \in BOOLEAN : AuditGot(r, e)
  \/ \E r \in RpcIds, e \in BOOLEAN : AuditOpened(r, e)
  \/ \E r \in RpcIds : AuditProofEnd(r)
  \/ \E r \in RpcIds : AuditShardStreamError(r)
  \/ \E r \in RpcIds : AuditClose(r)
  \/ \E h \in Published : Quiet /\ PublishShardDescriptor(h, 1, {})
  \/ \E i \in OfferIds, f \in Farmers, d \in OfferDescriptors :
        Quiet /\ d.farmer_hd_key = f.xpub /\ Offer(i, f, d)
  \/ \E h \in Hashes : OfferStreamRead(h)
  \/ \E h \in Published, i \in OfferIds, e \in BOOLEAN : ResolveContractOffer(h, i, e)
  \/ \E i \in OfferIds : OfferClose(i)
  \/ ReapExpiredTokens
  \/ Tick

SpecHandlers == InitRules /\ [][NextHandlers]_vars


(***************************************************************************)
(* WHAT EACH HANDLER MAY CHANGE                                            *)
(***************************************************************************)
\* A step of a handler of one of the given kinds: the request arrives, one
\* of its callbacks runs, or its reply is taken.
HandlerStep(kinds) ==
  \E r \in RpcIds :
    /\ rpc'[r] # rpc[r]
    /\ rpc[r].kind \in kinds \/ (rpc[r].kind = "idle" /\ rpc'[r].kind \in kinds)

\* A step of the OFFER handler or of the AUDIT handler.
OfferStep == offerRpc' # offerRpc
AuditStep == auditRpc' # auditRpc

\* The tokens and the contracts of the state before are there after it.
TokensKept == \A t \in DOMAIN allowed : t \in DOMAIN allowed'
ContractsKept == \A k \in DOMAIN contracts : k \in DOMAIN contracts'

\* C40: a step of OFFER, AUDIT, MIRROR or PROBE leaves the contract store,
\* the token table and the shard store as they were; a step of CONSIGN or
\* RETRIEVE leaves the contract store and the shard store as they were and
\* adds at most one record to the token table; a handler step that changes
\* the contract store is a step of CLAIM or RENEW; and no handler step
\* removes a token or a contract.
C40_HandlerFrames ==
  [][/\ (OfferStep \/ AuditStep \/ HandlerStep({"mirror", "probe"})) =>
          /\ contracts' = contracts
          /\ allowed' = allowed
          /\ shards' = shards
     /\ HandlerStep({"consign", "retrieve"}) =>
          /\ contracts' = contracts
          /\ shards' = shards
          /\ Cardinality(DOMAIN allowed' \ DOMAIN allowed) <= 1
     /\ ((OfferStep \/ AuditStep \/ HandlerStep(RpcKinds)) /\ contracts' # contracts) =>
          HandlerStep({"claim", "renew"})
     /\ (OfferStep \/ AuditStep \/ HandlerStep(RpcKinds)) =>
          TokensKept /\ ContractsKept]_vars

\* PROBE has answered on a node that holds a token and a contract that
\* CLAIM or RENEW wrote, while a descriptor is published for offers.
C40_Witness ==
  /\ \E r \in RpcIds : rpc[r].kind = "probe" /\ rpc[r].pc = "done" /\ rpc[r].status = "ok"
  /\ allowed # <<>>
  /\ \E k \in DOMAIN contracts : contracts[k] # Stored(k[1])
  /\ \E h \in Hashes : OffersHas(h)

====
